---- MODULE Spec2Model ----
(***************************************************************************)
(* Session-scoped search, history and analytics subsystem.                 *)
(*                                                                         *)
(* Strings are sequences of tokens: the literal prefixes "anonymous_",     *)
(* "session_" and "user_" are one token each, a UUID is one token.         *)
(* Time is the millisecond clock of Date.now().  The clock only stops at   *)
(* the instants of Instants; a run of the cleanup timer that would find no *)
(* expired session (and so does nothing, lines 144-146 of sessionService)  *)
(* may be skipped by the clock, every other run happens at its instant.    *)
(* A store call (deleteMany, create, save) and the synchronous code that   *)
(* follows its await up to the next await is one step.                     *)
(***************************************************************************)
EXTENDS Integers, Sequences, FiniteSets, TLC

VARIABLES now, activeSessions, nextUuid, history, queries, clicks, nextRecId, nextQueryId,
          reqs, sweeps, timers, cleanupJob, nextTimerId

vars == <<now, activeSessions, nextUuid, history, queries, clicks, nextRecId, nextQueryId,
          reqs, sweeps, timers, cleanupJob, nextTimerId>>

-----------------------------------------------------------------------------
(* Program constants *)

SESSION_TIMEOUT == 12 * 60 * 60 * 1000

CLEANUP_INTERVAL == 5 * 60 * 1000

-----------------------------------------------------------------------------
(* Bounds of the model *)

MaxSessions == 2      \* session ids the generator may hand out

MaxUsers == 1         \* authenticated users

MaxReqs == 1          \* requests in flight at once

MaxClientReqs == 2    \* requests in flight at once, the clock standing still

MaxSweeps == 1        \* sweep runs in progress at once

MaxRecords == 1       \* records ever appended to the history and click stores

MaxQueries == 1       \* records ever appended to the query store

MaxTimers == 1        \* setInterval calls

MaxIntervals == 1     \* sweep intervals observed after the first timeout

Instants == {0, 1} \cup { SESSION_TIMEOUT + k * CLEANUP_INTERVAL : k \in 0..MaxIntervals }

-----------------------------------------------------------------------------
(* Strings *)

NoId == << >>

Null == <<"<null>">>

SessionIdOf(n) == <<"session_", ToString(n)>>

UserIds == { <<"user_", ToString(n)>> : n \in 1..MaxUsers }

\* what a client may send as X-Session-Id, body.sessionId or query.sessionId
Candidates == {NoId} \cup { SessionIdOf(n) : n \in 1..MaxSessions }

getAnonymousUserId(sessionId) == <<"anonymous_">> \o sessionId

isAnonymousUserId(userId) == Len(userId) >= 1 /\ userId[1] = "anonymous_"

\* String.prototype.replace with a string pattern: the first occurrence only
RECURSIVE ReplaceFirst(_, _)
ReplaceFirst(s, tok) ==
  IF s = << >> THEN << >>
  ELSE IF Head(s) = tok THEN Tail(s)
  ELSE <<Head(s)>> \o ReplaceFirst(Tail(s), tok)

\* an extraction that removes every anonymous_ of the id
extractSessionId_AllRemoved(userId) ==
  IF ~isAnonymousUserId(userId) THEN Null
  ELSE SelectSeq(userId, LAMBDA tok : tok # "anonymous_")

extractSessionId(userId) ==
  IF ~isAnonymousUserId(userId) THEN Null
  ELSE ReplaceFirst(userId, "anonymous_")

\* String.prototype.trim, the token " " being white space
RECURSIVE TrimLeft(_)
TrimLeft(s) == IF s # << >> /\ Head(s) = " " THEN TrimLeft(Tail(s)) ELSE s

RECURSIVE TrimRight(_)
TrimRight(s) ==
  IF s # << >> /\ s[Len(s)] = " " THEN TrimRight(SubSeq(s, 1, Len(s) - 1)) ELSE s

Trim(s) == TrimRight(TrimLeft(s))

Texts == { << >>, <<"laptop">> }

\* the texts a client may send in ?busqueda=, white space included
SearchTexts == Texts \cup { <<" ">>, <<" ", "laptop", " ">> }

ResultPages == { << >>, <<"p1", "p2", "p3">> }

ProductIds == {"p1"}

-----------------------------------------------------------------------------
(* The session registry: a Map in insertion order, as a sequence of entries *)

Keys == { activeSessions[i].key : i \in 1..Len(activeSessions) }

MapHas(k) == k \in Keys

MapGet(k) == activeSessions[CHOOSE i \in 1..Len(activeSessions) : activeSessions[i].key = k]

\* a delete that takes the last entry when the key is not there
MapDelete_OrLast(k) ==
  IF MapHas(k) THEN SelectSeq(activeSessions, LAMBDA e : e.key # k)
  ELSE SubSeq(activeSessions, 1, Len(activeSessions) - 1)

MapDelete(k) == SelectSeq(activeSessions, LAMBDA e : e.key # k)

generateSessionId == SessionIdOf(nextUuid)

\* a registration that replaces the entry of an id already there
registerSession_Recreate(sessionId) ==
  Append(SelectSeq(activeSessions, LAMBDA e : e.key # sessionId),
         [key |-> sessionId, sessionId |-> sessionId, createdAt |-> now,
          lastActivity |-> now])

registerSession(sessionId) ==
  IF MapHas(sessionId)
    THEN [ i \in 1..Len(activeSessions) |->
             IF activeSessions[i].key = sessionId
               THEN [activeSessions[i] EXCEPT !.lastActivity = now]
               ELSE activeSessions[i] ]
    ELSE Append(activeSessions,
                [key |-> sessionId, sessionId |-> sessionId,
                 createdAt |-> now, lastActivity |-> now])

\* the comparison of line 73 written as <=
isSessionActive_Inclusive(sessionId) ==
  IF ~MapHas(sessionId) THEN FALSE
  ELSE (now - MapGet(sessionId).lastActivity) <= SESSION_TIMEOUT

isSessionActive(sessionId) ==
  IF ~MapHas(sessionId) THEN FALSE
  ELSE (now - MapGet(sessionId).lastActivity) < SESSION_TIMEOUT

\* the scan testing the age of the session instead of its inactivity
ExpiredAt_ByCreation(t) ==
  LET sel == SelectSeq(activeSessions, LAMBDA e : (t - e.createdAt) >= SESSION_TIMEOUT)
  IN  [ i \in 1..Len(sel) |-> sel[i].key ]

\* the scan testing > where line 133 tests >=
ExpiredAt_Strict(t) ==
  LET sel == SelectSeq(activeSessions, LAMBDA e : (t - e.lastActivity) > SESSION_TIMEOUT)
  IN  [ i \in 1..Len(sel) |-> sel[i].key ]

\* the scan of cleanupExpiredSessions at clock value t
ExpiredAt(t) ==
  LET sel == SelectSeq(activeSessions, LAMBDA e : (t - e.lastActivity) >= SESSION_TIMEOUT)
  IN  [ i \in 1..Len(sel) |-> sel[i].key ]

-----------------------------------------------------------------------------
(* The stores *)

\* a delete that matches every anonymous owner instead of the one given
DeleteManyByUser_AnyAnonymous(coll, userId) == { r \in coll : ~isAnonymousUserId(r.userId) }

DeleteManyByUser(coll, userId) == { r \in coll : r.userId # userId }

OwnedBy(coll, userId) == { r \in coll : r.userId = userId }

-----------------------------------------------------------------------------
(* Initial state: the module has just been loaded *)

IdleReq == [pc |-> "idle"]

\* no sweep run in progress; errors: the sessions whose cascade logged an
\* error (console.error of cleanupSessionHistory) in the last run
IdleSweep(errors) == [pc |-> "idle", errors |-> errors]

Done(status) == [pc |-> "done", status |-> status]

InitWith(slots) ==
  /\ now = 0
  /\ activeSessions = << >>
  /\ nextUuid = 1
  /\ history = {}
  /\ queries = {}
  /\ clicks = {}
  /\ nextRecId = 1
  /\ nextQueryId = 1
  /\ reqs = [ r \in 1..slots |-> IdleReq ]
  /\ sweeps = [ w \in 1..MaxSweeps |-> IdleSweep({}) ]
  /\ timers = [ t \in {} |-> 0 ]
  /\ cleanupJob = 0
  /\ nextTimerId = 1

Init == InitWith(MaxReqs)

\* the state of a process whose click store holds one of the collections,
\* with one of the calls about to be made
InitCalling(stores, calls) ==
  /\ now = 0
  /\ activeSessions = << >>
  /\ nextUuid = 1
  /\ history = {}
  /\ queries = {}
  /\ clicks \in stores
  /\ nextRecId = Cardinality(clicks) + 1
  /\ nextQueryId = 1
  /\ reqs \in [{1} -> calls]
  /\ sweeps = [ w \in 1..MaxSweeps |-> IdleSweep({}) ]
  /\ timers = [ t \in {} |-> 0 ]
  /\ cleanupJob = 0
  /\ nextTimerId = 1

-----------------------------------------------------------------------------
(* The owner ids of anonymous sessions: getAnonymousUserId, extractSessionId *)

\* the longest id, in tokens
MaxIdLen == 4

IdTokens == {"anonymous_", "session_", "user_", "1"}

RECURSIVE IdStrings(_)
IdStrings(n) ==
  IF n = 0 THEN { << >> }
  ELSE LET shorter == IdStrings(n - 1)
       IN shorter \cup { <<tok>> \o s : tok \in IdTokens, s \in { x \in shorter : Len(x) = n - 1 } }

IdCalls == { [pc |-> "call", op |-> "ids", id |-> s] : s \in IdStrings(MaxIdLen) }

\* the two functions applied to the id of the call
ApplyIds(r) ==
  /\ reqs[r].pc = "call"
  /\ reqs[r].op = "ids"
  /\ reqs' = [reqs EXCEPT ![r] =
       [pc |-> "returned", op |-> "ids", id |-> reqs[r].id,
        userId |-> getAnonymousUserId(reqs[r].id),
        sessionId |-> extractSessionId(reqs[r].id)]]
  /\ UNCHANGED <<now, activeSessions, nextUuid, history, queries, clicks, nextRecId,
                 nextQueryId, sweeps, timers, cleanupJob, nextTimerId>>

IdsNext == \E r \in DOMAIN reqs : ApplyIds(r)

IdsSpec == InitCalling({{}}, IdCalls) /\ [][IdsNext]_vars

-----------------------------------------------------------------------------
(* ProductsService.searchAndFilterProducts.  Texts are sequences of         *)
(* characters here; an optional number is the empty set or a singleton, an  *)
(* absent text the empty sequence.                                          *)

\* a field the catalog API left out of a publication
Undefined == <<"<undefined>">>

\* String.prototype.toLowerCase
Lower(ch) == CASE ch = "A" -> "a" [] ch = "B" -> "b" [] ch = "T" -> "t" [] OTHER -> ch

toLowerCase(s) == [ i \in 1..Len(s) |-> Lower(s[i]) ]

\* String.prototype.includes
includes(s, sub) ==
  \E i \in 0..(Len(s) - Len(sub)) : SubSeq(s, i + 1, i + Len(sub)) = sub

\* the defaults of page and pageSize
DEFAULT_PAGE == 1

DEFAULT_PAGE_SIZE == 20

OrElse(opt, default) == IF opt = {} THEN default ELSE CHOOSE n \in opt : TRUE

\* a normalization that also drops the publications without title
normalizeAll_DropPartial(data) ==
  LET kept == SelectSeq(data, LAMBDA pub : pub.producto # {} /\ pub.titulo # Undefined)
  IN [ i \in 1..Len(kept) |->
         LET producto == CHOOSE x \in kept[i].producto : TRUE
         IN [id_producto |-> kept[i].id_producto, titulo |-> kept[i].titulo,
             descripcion |-> kept[i].descripcion, precio |-> producto.precio,
             categoria |-> producto.categoria, condicion |-> producto.condicion,
             marca |-> producto.marca] ]

\* normalizePublicacion and the filter of the publications without producto
RECURSIVE normalizeAll(_)
normalizeAll(data) ==
  IF data = << >> THEN << >>
  ELSE LET pub == Head(data)
       IN (IF pub.producto = {} THEN << >>
           ELSE LET producto == CHOOSE x \in pub.producto : TRUE
                IN << [id_producto |-> pub.id_producto, titulo |-> pub.titulo,
                       descripcion |-> pub.descripcion, precio |-> producto.precio,
                       categoria |-> producto.categoria, condicion |-> producto.condicion,
                       marca |-> producto.marca] >>)
          \o normalizeAll(Tail(data))

\* a catalog read that falls back on what it has when the API is down
CatalogThrows_Fallback(f) ==
  ~f.dummy /\ f.answer = "data" /\ Len(f.data) = 0

\* the catalog read: the fixture in dummy mode, else the answer of the
\* publications API, which must be a non-empty array
CatalogThrows(f) ==
  ~f.dummy /\ (f.answer # "data" \/ Len(f.data) = 0)

todosProductos(f) == normalizeAll(f.data)

MatchesText(p, busqueda) ==
  LET searchLower == Trim(toLowerCase(busqueda))
  IN \/ includes(toLowerCase(p.titulo), searchLower)
     \/ includes(toLowerCase(p.descripcion), searchLower)
     \/ includes(toLowerCase(p.marca), searchLower)

FilterText(ps, busqueda) ==
  IF busqueda # << >> /\ Trim(busqueda) # << >>
    THEN SelectSeq(ps, LAMBDA p : MatchesText(p, busqueda))
    ELSE ps

\* a lower price limit that is not inclusive
FilterPriceMin_Strict(ps, precio_min) ==
  IF precio_min # {} THEN SelectSeq(ps, LAMBDA p : \A m \in precio_min : p.precio > m)
  ELSE ps

FilterPriceMin(ps, precio_min) ==
  IF precio_min # {} THEN SelectSeq(ps, LAMBDA p : \A m \in precio_min : p.precio >= m)
  ELSE ps

FilterPriceMax(ps, precio_max) ==
  IF precio_max # {} THEN SelectSeq(ps, LAMBDA p : \A m \in precio_max : p.precio <= m)
  ELSE ps

FilterCategoria(ps, categoria) ==
  IF categoria # << >>
    THEN SelectSeq(ps, LAMBDA p : toLowerCase(p.categoria) = toLowerCase(categoria))
    ELSE ps

FilterCondicion(ps, condicion) ==
  IF condicion # << >>
    THEN SelectSeq(ps, LAMBDA p : toLowerCase(p.condicion) = toLowerCase(condicion))
    ELSE ps

\* the TypeError of toLowerCase on a field left out: thrown by the first
\* filter that reads such a field of a product that reached it
FilterThrows(f) ==
  LET searchLower == Trim(toLowerCase(f.busqueda))
      textThrows(p) ==
        \/ p.titulo = Undefined
        \/ /\ ~includes(toLowerCase(p.titulo), searchLower)
           /\ \/ p.descripcion = Undefined
              \/ /\ ~includes(toLowerCase(p.descripcion), searchLower)
                 /\ p.marca = Undefined
      all == todosProductos(f)
      priced == FilterPriceMax(FilterPriceMin(FilterText(all, f.busqueda), f.precio_min),
                               f.precio_max)
      categorized == FilterCategoria(priced, f.categoria)
  IN IF f.busqueda # << >> /\ Trim(f.busqueda) # << >>
          /\ \E i \in 1..Len(all) : textThrows(all[i])
       THEN TRUE
     ELSE IF f.categoria # << >> /\ \E i \in 1..Len(priced) : priced[i].categoria = Undefined
       THEN TRUE
     ELSE f.condicion # << >>
            /\ \E i \in 1..Len(categorized) : categorized[i].condicion = Undefined

productosFiltrados(f) ==
  FilterCondicion(
    FilterCategoria(
      FilterPriceMax(
        FilterPriceMin(
          FilterText(todosProductos(f), f.busqueda),
          f.precio_min),
        f.precio_max),
      f.categoria),
    f.condicion)

\* Array.prototype.sort is stable: a product goes after those that do not
\* compare greater than it
Compare(a, b, ordenar) ==
  IF ordenar = "precio-asc" THEN a.precio - b.precio ELSE b.precio - a.precio

RECURSIVE InsertSorted(_, _, _)
InsertSorted(sorted, p, ordenar) ==
  IF sorted = << >> THEN <<p>>
  ELSE IF Compare(Head(sorted), p, ordenar) <= 0
    THEN <<Head(sorted)>> \o InsertSorted(Tail(sorted), p, ordenar)
    ELSE <<p>> \o sorted

RECURSIVE SortFrom(_, _, _)
SortFrom(sorted, rest, ordenar) ==
  IF rest = << >> THEN sorted
  ELSE SortFrom(InsertSorted(sorted, Head(rest), ordenar), Tail(rest), ordenar)

productosOrdenados(f) ==
  IF f.ordenar \in {"precio-asc", "precio-desc"}
    THEN SortFrom(<< >>, productosFiltrados(f), f.ordenar)
    ELSE productosFiltrados(f)

\* a division that rounds down
CeilDiv_Floor(total, pageSize) == total \div pageSize

\* Math.ceil(total / pageSize), the quotient being exact for these sizes
CeilDiv(total, pageSize) == (total + pageSize - 1) \div pageSize

\* a first index that skips the page asked for
StartIndex_NextPage(page, pageSize) == page * pageSize

StartIndex(page, pageSize) == (page - 1) * pageSize

\* Array.prototype.slice(start, end) for start, end >= 0
Slice(seq, start, end) ==
  SubSeq(seq, start + 1, IF end < Len(seq) THEN end ELSE Len(seq))

searchAndFilterProducts(f) ==
  IF CatalogThrows(f) \/ FilterThrows(f) THEN [threw |-> TRUE]
  ELSE LET page == OrElse(f.page, DEFAULT_PAGE)
           pageSize == OrElse(f.pageSize, DEFAULT_PAGE_SIZE)
           total == Len(productosOrdenados(f))
           totalPages == CeilDiv(total, pageSize)
           startIndex == StartIndex(page, pageSize)
       IN [threw |-> FALSE,
           productos |-> Slice(productosOrdenados(f), startIndex, startIndex + pageSize),
           metadata |-> [total |-> total, page |-> page, pageSize |-> pageSize,
                         totalPages |-> totalPages, hasMore |-> page < totalPages]]

\* a call of the service returns what it computes
ApplySearch(r) ==
  /\ reqs[r].pc = "call"
  /\ reqs[r].op = "searchAndFilterProducts"
  /\ reqs' = [reqs EXCEPT ![r] =
       [pc |-> "returned", op |-> "searchAndFilterProducts", filters |-> reqs[r].filters,
        result |-> searchAndFilterProducts(reqs[r].filters)]]
  /\ UNCHANGED <<now, activeSessions, nextUuid, history, queries, clicks, nextRecId,
                 nextQueryId, sweeps, timers, cleanupJob, nextTimerId>>

CatalogNext == \E r \in DOMAIN reqs : ApplySearch(r)

\* a publication with the text a in its title, of price n
Publicacion(i, n) ==
  [id_producto |-> ToString(i), titulo |-> <<"a">>, descripcion |-> << >>,
   producto |-> {[precio |-> n, categoria |-> <<"t">>, condicion |-> <<"n">>,
                  marca |-> << >>]}]

\* the size of the longest catalog paged through, and the prices in it
MaxCatalog == 25

MaxPrice == 3

\* catalogs of i publications whose prices go round 1..MaxPrice
PagedCatalogs == { [ i \in 1..n |-> Publicacion(i, 1 + (i % MaxPrice)) ] : n \in 0..MaxCatalog }

\* the last page asked for
MaxPage == 4

PageSizes == {1, 2, 10, 100}

PagingCalls ==
  { [pc |-> "call", op |-> "searchAndFilterProducts",
     filters |-> [dummy |-> FALSE, answer |-> "data", data |-> data, busqueda |-> << >>,
                  precio_min |-> {}, precio_max |-> mx, categoria |-> << >>,
                  condicion |-> << >>, ordenar |-> ordenar, page |-> {page},
                  pageSize |-> {pageSize}]] :
    data \in PagedCatalogs \ {<< >>}, mx \in {{}, {0}, {2}},
    ordenar \in {"", "precio-asc", "precio-desc"},
    page \in 1..MaxPage, pageSize \in PageSizes }

PagingSpec == InitCalling({{}}, PagingCalls) /\ [][CatalogNext]_vars

\* publications that differ in every field a filter reads; the last has no
\* producto
FilterPool ==
  { [id_producto |-> "1", titulo |-> <<"A", "b">>, descripcion |-> << >>,
     producto |-> {[precio |-> 1, categoria |-> <<"T">>, condicion |-> <<"n">>,
                    marca |-> <<"x">>]}],
    [id_producto |-> "2", titulo |-> <<"x">>, descripcion |-> <<"a", "B", "a">>,
     producto |-> {[precio |-> 2, categoria |-> <<"t">>, condicion |-> <<"u">>,
                    marca |-> << >>]}],
    [id_producto |-> "3", titulo |-> <<"x">>, descripcion |-> <<"b", "a">>,
     producto |-> {[precio |-> 3, categoria |-> <<"h">>, condicion |-> <<"N">>,
                    marca |-> <<"a", "b">>]}],
    [id_producto |-> "4", titulo |-> <<"b">>, descripcion |-> <<"a">>,
     producto |-> {[precio |-> 2, categoria |-> <<"T">>, condicion |-> <<"n">>,
                    marca |-> <<"B">>]}],
    [id_producto |-> "5", titulo |-> <<"a", "b">>, descripcion |-> << >>,
     producto |-> {}] }

\* the longest catalog filtered
MaxProducts == 3

\* the non-empty catalogs of distinct publications
FilterCatalogs ==
  UNION { { data \in [1..n -> FilterPool] : \A i, j \in 1..n : i # j => data[i] # data[j] } :
          n \in 1..MaxProducts }

FilterCalls ==
  { [pc |-> "call", op |-> "searchAndFilterProducts",
     filters |-> [dummy |-> FALSE, answer |-> "data", data |-> data, busqueda |-> busqueda,
                  precio_min |-> mn, precio_max |-> mx, categoria |-> categoria,
                  condicion |-> condicion, ordenar |-> ordenar, page |-> {},
                  pageSize |-> {}]] :
    data \in FilterCatalogs,
    busqueda \in { << >>, <<" ">>, <<"a", "b">>, <<" ", "B", " ">> },
    mn \in {{}, {2}}, mx \in {{}, {2}},
    categoria \in { << >>, <<"T">> }, condicion \in { << >>, <<"n">> },
    ordenar \in {"", "precio-asc", "precio-desc"} }

FilterSpec == InitCalling({{}}, FilterCalls) /\ [][CatalogNext]_vars

\* calls on catalogs with publications that lack the title, the brand, the
\* category or the whole producto
PartialCalls ==
  LET whole == CHOOSE x \in Publicacion(1, 1).producto : TRUE
      pool == << Publicacion(1, 1),
                 [Publicacion(2, 1) EXCEPT !.titulo = Undefined, !.descripcion = <<"a">>],
                 [Publicacion(3, 1) EXCEPT !.titulo = <<"b">>,
                                           !.producto = {[whole EXCEPT !.marca = Undefined]}],
                 [Publicacion(4, 1) EXCEPT !.producto = {[whole EXCEPT !.categoria = Undefined]}],
                 [Publicacion(5, 1) EXCEPT !.producto = {}] >>
  IN { [pc |-> "call", op |-> "searchAndFilterProducts",
        filters |-> [dummy |-> FALSE, answer |-> "data",
                     data |-> [ i \in DOMAIN d |-> pool[d[i]] ], busqueda |-> busqueda,
                     precio_min |-> {}, precio_max |-> {}, categoria |-> categoria,
                     condicion |-> << >>, ordenar |-> "", page |-> {}, pageSize |-> {}]] :
       d \in { d \in UNION { [1..n -> 1..5] : n \in 1..MaxProducts } :
                 \A i, j \in DOMAIN d : i # j => d[i] # d[j] },
       busqueda \in { << >>, <<"a">> }, categoria \in { << >>, <<"t">> } }

PartialSpec == InitCalling({{}}, PartialCalls) /\ [][CatalogNext]_vars

-----------------------------------------------------------------------------
(* optionalAuthenticate and handleAnonymousSession.  ident is the user id  *)
(* the authentication service returns for the token, NoId when there is   *)
(* no valid token; c is the X-Session-Id header.                           *)

Idents == UserIds \cup {NoId}

\* the test of line 810 without the expiry check
NeedsNewId_RegisteredOnly(c) == c = NoId \/ ~MapHas(c)

NeedsNewId(c) == c = NoId \/ ~isSessionActive(c)

\* a client-supplied id taken as it comes
ResolveSessionId_Trusting(c) == IF c = NoId THEN generateSessionId ELSE c

ResolveSessionId(c) == IF NeedsNewId(c) THEN generateSessionId ELSE c

ReqCtx(ident, c) ==
  IF ident # NoId
    THEN [userId |-> ident, sessionId |-> NoId, isAnonymous |-> FALSE]
    ELSE [userId |-> getAnonymousUserId(ResolveSessionId(c)),
          sessionId |-> ResolveSessionId(c), isAnonymous |-> TRUE]

optionalAuthenticate(ident, c) ==
  IF ident # NoId
    THEN UNCHANGED <<activeSessions, nextUuid>>
    ELSE /\ NeedsNewId(c) => nextUuid <= MaxSessions
         /\ activeSessions' = registerSession(ResolveSessionId(c))
         /\ nextUuid' = IF NeedsNewId(c) THEN nextUuid + 1 ELSE nextUuid

Free(r) == reqs[r].pc \in {"idle", "done"}

\* a new request takes the lowest free slot
FreeSlot(r) == Free(r) /\ \A q \in 1..(r - 1) : ~Free(q)

-----------------------------------------------------------------------------
(* GET /products: search *)

hasSearchText(busqueda) == busqueda # << >> /\ Trim(busqueda) # << >>

\* validateSearchParams trims the text before the controller sees it.  The
\* catalog read of searchAndFilterProducts touches no state of this model,
\* so it is part of the step that starts the request: it returns a page
\* (ok) or throws.
\* a search that records its text whether or not there is one
SearchBegun_AlwaysRecords(ctx, raw, ok, page) ==
  IF ~ok THEN Done(500)
  ELSE [pc |-> "query", op |-> "search", userId |-> ctx.userId,
        busqueda |-> Trim(raw), results |-> page]

SearchBegun(ctx, raw, ok, page) ==
  IF ~ok THEN Done(500)
  ELSE IF hasSearchText(Trim(raw))
    THEN [pc |-> "query", op |-> "search", userId |-> ctx.userId,
          busqueda |-> Trim(raw), results |-> page]
    ELSE Done(200)

StartSearch(r, ident, c, raw, ok, page) ==
  /\ FreeSlot(r)
  /\ optionalAuthenticate(ident, c)
  /\ reqs' = [reqs EXCEPT ![r] = SearchBegun(ReqCtx(ident, c), raw, ok, page)]
  /\ UNCHANGED <<now, history, queries, clicks, nextRecId, nextQueryId, sweeps, timers,
                 cleanupJob, nextTimerId>>

saveSearchQuery(queryText) ==
  IF queryText # << >> /\ Trim(queryText) # << >>
    THEN /\ nextQueryId <= MaxQueries
         /\ queries' = queries \cup {[id |-> nextQueryId, valor_busqueda |-> Trim(queryText)]}
         /\ nextQueryId' = nextQueryId + 1
    ELSE UNCHANGED <<queries, nextQueryId>>

SearchSaveQuery(r, ok) ==
  /\ reqs[r].pc = "query"
  /\ IF ok THEN saveSearchQuery(reqs[r].busqueda) ELSE UNCHANGED <<queries, nextQueryId>>
  /\ reqs' = [reqs EXCEPT ![r] =
       IF ~ok THEN Done(500)
       ELSE IF reqs[r].userId # NoId /\ Len(reqs[r].results) > 0
         THEN [reqs[r] EXCEPT !.pc = "history"]
         ELSE Done(200)]
  /\ UNCHANGED <<now, activeSessions, nextUuid, history, clicks, nextRecId, sweeps,
                 timers, cleanupJob, nextTimerId>>

\* a history record saved without its owner
saveSearchHistory_NoOwner(userId, queryText, results) ==
  /\ nextRecId <= MaxRecords
  /\ history' = history \cup
       {[id |-> nextRecId, userId |-> Null, queryText |-> queryText, results |-> results]}
  /\ nextRecId' = nextRecId + 1

saveSearchHistory(userId, queryText, results) ==
  /\ nextRecId <= MaxRecords
  /\ history' = history \cup
       {[id |-> nextRecId, userId |-> userId, queryText |-> queryText, results |-> results]}
  /\ nextRecId' = nextRecId + 1

SearchSaveHistory(r, ok) ==
  /\ reqs[r].pc = "history"
  /\ reqs[r].op = "search"
  /\ IF ok THEN saveSearchHistory(reqs[r].userId, reqs[r].busqueda, reqs[r].results)
           ELSE UNCHANGED <<history, nextRecId>>
  /\ reqs' = [reqs EXCEPT ![r] = Done(IF ok THEN 200 ELSE 500)]
  /\ UNCHANGED <<now, activeSessions, nextUuid, queries, nextQueryId, clicks, sweeps, timers,
                 cleanupJob, nextTimerId>>

-----------------------------------------------------------------------------
(* POST /history: saveSearchHistory controller *)

SaveBegun(ctx, busqueda) ==
  IF busqueda = << >> THEN Done(400)
  ELSE [pc |-> "history", op |-> "save", userId |-> ctx.userId, busqueda |-> busqueda]

StartSave(r, ident, c, busqueda) ==
  /\ FreeSlot(r)
  /\ optionalAuthenticate(ident, c)
  /\ reqs' = [reqs EXCEPT ![r] = SaveBegun(ReqCtx(ident, c), busqueda)]
  /\ UNCHANGED <<now, history, queries, clicks, nextRecId, nextQueryId, sweeps, timers,
                 cleanupJob, nextTimerId>>

SaveHistory(r, ok) ==
  /\ reqs[r].pc = "history"
  /\ reqs[r].op = "save"
  /\ IF ok THEN saveSearchHistory(reqs[r].userId, reqs[r].busqueda, << >>)
           ELSE UNCHANGED <<history, nextRecId>>
  /\ reqs' = [reqs EXCEPT ![r] = Done(IF ok THEN 200 ELSE 500)]
  /\ UNCHANGED <<now, activeSessions, nextUuid, queries, nextQueryId, clicks, sweeps, timers,
                 cleanupJob, nextTimerId>>

-----------------------------------------------------------------------------
(* POST /clicks: registerProductClick *)

ClickBegun(ctx, id_producto) ==
  [pc |-> "click", op |-> "click", userId |-> ctx.userId, id_producto |-> id_producto]

StartClick(r, ident, c, id_producto) ==
  /\ FreeSlot(r)
  /\ optionalAuthenticate(ident, c)
  /\ reqs' = [reqs EXCEPT ![r] = ClickBegun(ReqCtx(ident, c), id_producto)]
  /\ UNCHANGED <<now, history, queries, clicks, nextRecId, nextQueryId, sweeps, timers,
                 cleanupJob, nextTimerId>>

saveClick(userId, id_producto) ==
  /\ nextRecId <= MaxRecords
  /\ clicks' = clicks \cup {[id |-> nextRecId, userId |-> userId, id_producto |-> id_producto]}
  /\ nextRecId' = nextRecId + 1

RegisterClick(r, ok) ==
  /\ reqs[r].pc = "click"
  /\ IF ok THEN saveClick(reqs[r].userId, reqs[r].id_producto)
           ELSE UNCHANGED <<clicks, nextRecId>>
  /\ reqs' = [reqs EXCEPT ![r] = Done(IF ok THEN 200 ELSE 500)]
  /\ UNCHANGED <<now, activeSessions, nextUuid, history, queries, nextQueryId, sweeps, timers,
                 cleanupJob, nextTimerId>>

-----------------------------------------------------------------------------
(* GET /history and DELETE /history/:id *)

\* the default limit of SearchService.getSearchHistory
HISTORY_LIMIT == 10

\* sort({ requestedAt: -1 }): record ids grow with the time of the write
RECURSIVE NewestFirst(_)
NewestFirst(S) ==
  IF S = {} THEN << >>
  ELSE LET h == CHOOSE x \in S : \A y \in S : y.id <= x.id
       IN <<h>> \o NewestFirst(S \ {h})

getSearchHistory(userId) ==
  IF userId = NoId THEN << >>
  ELSE LET all == NewestFirst(OwnedBy(history, userId))
       IN SubSeq(all, 1, IF Len(all) < HISTORY_LIMIT THEN Len(all) ELSE HISTORY_LIMIT)

ReadBegun(ctx) ==
  IF ctx.userId = NoId THEN Done(401)
  ELSE [pc |-> "find", op |-> "read", userId |-> ctx.userId]

StartGetHistory(r, ident, c) ==
  /\ FreeSlot(r)
  /\ optionalAuthenticate(ident, c)
  /\ reqs' = [reqs EXCEPT ![r] = ReadBegun(ReqCtx(ident, c))]
  /\ UNCHANGED <<now, history, queries, clicks, nextRecId, nextQueryId, sweeps, timers,
                 cleanupJob, nextTimerId>>

GetHistory(r, ok) ==
  /\ reqs[r].pc = "find"
  /\ reqs' = [reqs EXCEPT ![r] =
       IF ok THEN [pc |-> "done", status |-> 200,
                   historial |-> getSearchHistory(reqs[r].userId)]
             ELSE Done(500)]
  /\ UNCHANGED <<now, activeSessions, nextUuid, history, queries, clicks, nextRecId,
                 nextQueryId, sweeps, timers, cleanupJob, nextTimerId>>

\* an :id that is no ObjectId: the cast of the filter throws
MalformedId == 0

\* the ids a client may send: malformed, stored, or well-formed and unknown
HistoryIds == {MalformedId} \cup 1..(MaxRecords + 1)

\* a delete that does not look at the owner
deleteOne_ById(searchId, userId) ==
  history' = { h \in history : h.id # searchId }

\* SearchHistory.deleteOne({ _id: searchId, userId: userId })
deleteOne(searchId, userId) ==
  history' = { h \in history : ~(h.id = searchId /\ h.userId = userId) }

DeleteBegun(ctx, id) ==
  IF ctx.userId = NoId THEN Done(401)
  ELSE [pc |-> "deleteOne", op |-> "delete", userId |-> ctx.userId, id |-> id]

StartDelete(r, ident, c, id) ==
  /\ FreeSlot(r)
  /\ optionalAuthenticate(ident, c)
  /\ reqs' = [reqs EXCEPT ![r] = DeleteBegun(ReqCtx(ident, c), id)]
  /\ UNCHANGED <<now, history, queries, clicks, nextRecId, nextQueryId, sweeps, timers,
                 cleanupJob, nextTimerId>>

\* deleted = result.deletedCount > 0
DeleteHistory(r, ok) ==
  /\ reqs[r].pc = "deleteOne"
  /\ IF ok /\ reqs[r].id # MalformedId
       THEN /\ deleteOne(reqs[r].id, reqs[r].userId)
            /\ reqs' = [reqs EXCEPT ![r] = Done(IF history' # history THEN 200 ELSE 404)]
       ELSE /\ UNCHANGED history
            /\ reqs' = [reqs EXCEPT ![r] = Done(500)]
  /\ UNCHANGED <<now, activeSessions, nextUuid, queries, clicks, nextRecId, nextQueryId,
                 sweeps, timers, cleanupJob, nextTimerId>>

-----------------------------------------------------------------------------
(* GET /api/analytics/clicks: getAllClicks.  The analytics router has no    *)
(* session middleware.                                                      *)

\* the most click documents the store holds when the export is read
MaxExportClicks == 3

ClickedProducts == {"pA", "pB"}

\* userId is optional in ClickSchema: NoId stands for a document without it
OwnerChoices == {NoId} \cup UserIds \cup {getAnonymousUserId(SessionIdOf(1))}

\* a stored click; id is its _id and the order of its fecha
ClickDoc(i, p, o) ==
  IF o = NoId THEN [id |-> i, id_producto |-> p, nombre |-> <<"name of", p>>]
  ELSE [id |-> i, id_producto |-> p, nombre |-> <<"name of", p>>, userId |-> o]

\* the click collections of at most n documents
ClickStores(n, products, owners) ==
  UNION { { { ClickDoc(i, f[i].p, f[i].o) : i \in 1..k } :
            f \in [1..k -> [p : products, o : owners]] } : k \in 0..n }

\* the entries of data/clicks_dummy.json, with the fields the service reads
clicksDummy ==
  << [id_producto |-> "pA", nombre |-> <<"name of", "pA">>, fecha |-> 2],
     [id_producto |-> "pB", nombre |-> <<"name of", "pB">>, fecha |-> 1],
     [id_producto |-> "pA", nombre |-> <<"name of", "pA">>, fecha |-> 3] >>

\* select('id_producto nombre fecha'): _id is kept, and with it the order
\* of fecha
ExportFields == {"id", "id_producto", "nombre", "fecha"}

\* a read that projects nothing away
Select_All(doc, fields) == doc

Select(doc, fields) == [ f \in (DOMAIN doc) \cap fields |-> doc[f] ]

getAllClicks(coll, dummy) ==
  IF Cardinality(coll) = 0 /\ dummy THEN clicksDummy
  ELSE LET sorted == NewestFirst(coll)
       IN [ i \in 1..Len(sorted) |-> Select(sorted[i], ExportFields) ]

\* dummy is USE_DUMMY_ANALYTICS; ok is whether the store answers
ExportClicks(r, dummy, ok) ==
  /\ FreeSlot(r)
  /\ reqs' = [reqs EXCEPT ![r] =
       IF ok THEN [pc |-> "done", status |-> 200, body |-> getAllClicks(clicks, dummy)]
             ELSE Done(500)]
  /\ UNCHANGED <<now, activeSessions, nextUuid, history, queries, clicks, nextRecId,
                 nextQueryId, sweeps, timers, cleanupJob, nextTimerId>>

ExportNext == \E r \in DOMAIN reqs, dummy \in BOOLEAN, ok \in BOOLEAN : ExportClicks(r, dummy, ok)

ExportSpec ==
  InitCalling(ClickStores(MaxExportClicks, ClickedProducts, OwnerChoices), {IdleReq})
    /\ [][ExportNext]_vars

(* GET /api/analytics/top-products: getTopProducts, getPopularProducts *)

\* the most click documents the store holds when the top is computed
MaxClicks == 5

\* the default and the limits of ?limit=
DEFAULT_TOP == 6

MIN_TOP == 1

MAX_TOP == 20

\* limitSafe: the limit asked for, if any, brought into MIN_TOP..MAX_TOP
limitSafe(q) ==
  LET limit == OrElse(q, DEFAULT_TOP)
  IN IF limit < MIN_TOP THEN MIN_TOP ELSE IF limit > MAX_TOP THEN MAX_TOP ELSE limit

\* the clicks counted: the fixture in dummy mode when the store holds no
\* click with an id_producto, else the store
clickSource(coll, dummy) ==
  IF dummy /\ { c \in coll : c.id_producto # "" } = {} THEN clicksDummy
  ELSE NewestFirst(coll)

\* $match and $group: the ids counted, and the clickCount of each
GroupIds(docs) == { docs[i].id_producto : i \in 1..Len(docs) } \ {""}

\* a count that stops at the first click of another product
clickCount_Adjacent(docs, p) ==
  LET first == CHOOSE i \in 1..Len(docs) :
                 docs[i].id_producto = p /\ \A j \in 1..(i - 1) : docs[j].id_producto # p
  IN Cardinality({ i \in first..Len(docs) :
                     \A j \in first..i : docs[j].id_producto = p })

clickCount(docs, p) == Cardinality({ i \in 1..Len(docs) : docs[i].id_producto = p })

\* $sort { clickCount: -1 }: the order among equal counts is not fixed
TopOrders(docs) ==
  { order \in [1..Cardinality(GroupIds(docs)) -> GroupIds(docs)] :
      /\ \A i, j \in DOMAIN order : i # j => order[i] # order[j]
      /\ \A i, j \in DOMAIN order :
           i < j => clickCount(docs, order[i]) >= clickCount(docs, order[j]) }

\* the entries of the first limit groups of order, joined with the page
\* the catalog returns for no filter; f is that call of the catalog
getPopularProducts(coll, limit, dummy, order, f) ==
  LET docs == clickSource(coll, dummy)
      fromDummy == docs = clicksDummy
      catalog == searchAndFilterProducts(f)
      joined == IF fromDummy THEN todosProductos(f) ELSE catalog.productos
      found(p) == { joined[k] : k \in { i \in 1..Len(joined) : joined[i].id_producto = p } }
      n == IF limit < Len(order) THEN limit ELSE Len(order)
  IN IF fromDummy /\ catalog.threw THEN [threw |-> TRUE]
     ELSE [threw |-> FALSE,
           productos |->
             [ i \in 1..n |->
                 IF catalog.threw
                   THEN [id_producto |-> order[i], clickCount |-> clickCount(docs, order[i])]
                   ELSE [id_producto |-> order[i], clickCount |-> clickCount(docs, order[i]),
                         producto |-> found(order[i])] ]]

\* the answers of the catalog to the join
JoinCalls ==
  [dummy : {FALSE}, answer : {"data", "unreachable"},
   data : { <<[Publicacion(1, 1) EXCEPT !.id_producto = "pA"]>> },
   busqueda : { << >> }, precio_min : {{}}, precio_max : {{}}, categoria : { << >> },
   condicion : { << >> }, ordenar : {""}, page : {{}}, pageSize : {{}}]

TopCalls ==
  [pc : {"call"}, op : {"top"}, limit : {{}, {0}, {1}, {2}, {25}}, dummy : BOOLEAN,
   f : JoinCalls]

\* the request answers with the entries, or 500 when the store or, in dummy
\* mode, the catalog fails
ApplyTop(r, order, ok) ==
  /\ reqs[r].pc = "call"
  /\ reqs[r].op = "top"
  /\ order \in TopOrders(clickSource(clicks, reqs[r].dummy))
  /\ LET top == getPopularProducts(clicks, limitSafe(reqs[r].limit), reqs[r].dummy, order,
                                   reqs[r].f)
     IN reqs' = [reqs EXCEPT ![r] =
          IF ok /\ ~top.threw
            THEN [pc |-> "returned", op |-> "top", limit |-> reqs[r].limit,
                  dummy |-> reqs[r].dummy, status |-> 200, productos |-> top.productos]
            ELSE [pc |-> "returned", op |-> "top", limit |-> reqs[r].limit,
                  dummy |-> reqs[r].dummy, status |-> 500, productos |-> << >>]]
  /\ UNCHANGED <<now, activeSessions, nextUuid, history, queries, clicks, nextRecId,
                 nextQueryId, sweeps, timers, cleanupJob, nextTimerId>>

TopNext ==
  \E r \in DOMAIN reqs, ok \in BOOLEAN :
    \E order \in TopOrders(clickSource(clicks, reqs[r].dummy)) : ApplyTop(r, order, ok)

TopSpec ==
  InitCalling(ClickStores(MaxClicks, ClickedProducts \cup {"pC"}, {NoId}), TopCalls)
    /\ [][TopNext]_vars

-----------------------------------------------------------------------------
(* GET /api/analytics/top-terms: getTopSearchTerms *)

\* the most history records the store holds when the terms are computed
MaxTermRecords == 3

\* the latest requestedAt of those records
MaxRequestedAt == 2

\* the text saved for a search without text
CategoryBrowse == <<"[navegación por categoría/filtros]">>

TermTexts == { << >>, CategoryBrowse, <<"A">>, <<"a">>, <<"b">> }

\* the history collections of at most n records, each drawn from options
HistoryStores(n, options) ==
  UNION { { { [id |-> i, userId |-> f[i].userId, queryText |-> f[i].text,
               results |-> <<"p1">>, requestedAt |-> f[i].at] : i \in 1..k } :
            f \in [1..k -> options] } : k \in 0..n }

\* the default and the limits of ?limit=
DEFAULT_TERMS == 10

MIN_TERMS == 1

MAX_TERMS == 50

limitSafeTerms(q) ==
  LET limit == OrElse(q, DEFAULT_TERMS)
  IN IF limit < MIN_TERMS THEN MIN_TERMS ELSE IF limit > MAX_TERMS THEN MAX_TERMS ELSE limit

\* $match: the records with a text that is neither the placeholder nor empty
termMatch(coll) == { h \in coll : h.queryText \notin {CategoryBrowse, << >>} }

\* a grouping by the text as written
termKey_CaseSensitive(h) == h.queryText

\* $group _id: { $toLower: '$queryText' }
termKey(h) == toLowerCase(h.queryText)

termGroup(coll, term) == { h \in termMatch(coll) : termKey(h) = term }

\* $max: '$requestedAt'
lastSearched(coll, term) ==
  CHOOSE at \in { h.requestedAt : h \in termGroup(coll, term) } :
    \A h \in termGroup(coll, term) : h.requestedAt <= at

\* $sort { count: -1 }: the order among equal counts is not fixed
TermOrders(coll) ==
  LET terms == { termKey(h) : h \in termMatch(coll) }
  IN { order \in [1..Cardinality(terms) -> terms] :
         /\ \A i, j \in DOMAIN order : i # j => order[i] # order[j]
         /\ \A i, j \in DOMAIN order :
              i < j => Cardinality(termGroup(coll, order[i]))
                         >= Cardinality(termGroup(coll, order[j])) }

\* $limit and $project
getTopSearchTerms(coll, limit, order) ==
  [ i \in 1..(IF limit < Len(order) THEN limit ELSE Len(order)) |->
      [term |-> order[i], count |-> Cardinality(termGroup(coll, order[i])),
       lastSearched |-> lastSearched(coll, order[i])] ]

TermCalls == [pc : {"call"}, op : {"terms"}, limit : {{}, {0}, {1}, {2}, {60}}]

\* the request answers with the terms, or 500 when the store fails
ApplyTerms(r, order, ok) ==
  /\ reqs[r].pc = "call"
  /\ reqs[r].op = "terms"
  /\ order \in TermOrders(history)
  /\ reqs' = [reqs EXCEPT ![r] =
       IF ok
         THEN [pc |-> "returned", op |-> "terms", limit |-> reqs[r].limit, status |-> 200,
               terms |-> getTopSearchTerms(history, limitSafeTerms(reqs[r].limit), order)]
         ELSE [pc |-> "returned", op |-> "terms", limit |-> reqs[r].limit, status |-> 500,
               terms |-> << >>]]
  /\ UNCHANGED <<now, activeSessions, nextUuid, history, queries, clicks, nextRecId,
                 nextQueryId, sweeps, timers, cleanupJob, nextTimerId>>

TermsNext ==
  \E r \in DOMAIN reqs, ok \in BOOLEAN :
    \E order \in TermOrders(history) : ApplyTerms(r, order, ok)

\* the state at load with a history collection of stores and a call of calls
InitReading(stores, calls) ==
  /\ now = 0
  /\ activeSessions = << >>
  /\ nextUuid = 1
  /\ history \in stores
  /\ queries = {}
  /\ clicks = {}
  /\ nextRecId = Cardinality(history) + 1
  /\ nextQueryId = 1
  /\ reqs \in [{1} -> calls]
  /\ sweeps = [ w \in 1..MaxSweeps |-> IdleSweep({}) ]
  /\ timers = [ t \in {} |-> 0 ]
  /\ cleanupJob = 0
  /\ nextTimerId = 1

TermsSpec ==
  InitReading(HistoryStores(MaxTermRecords,
                            [userId : {<<"user_", "1">>}, text : TermTexts,
                             at : 0..MaxRequestedAt]),
              TermCalls)
    /\ [][TermsNext]_vars

-----------------------------------------------------------------------------
(* GET /suggestions: the controller getSuggestions over                     *)
(* SearchService.getSuggestions and the catalog.                            *)

\* the most history records the store holds when suggestions are asked for
MaxSuggestRecords == 6

\* the most suggestions answered, and the shortest text matched with the
\* catalog
SUGGESTIONS_LIMIT == 5

MIN_MATCH_LENGTH == 2

\* $regex with $options 'i' on a text of letters
regexMatch(s, pattern) == includes(toLowerCase(s), toLowerCase(pattern))

First(seq, n) == SubSeq(seq, 1, IF n < Len(seq) THEN n ELSE Len(seq))

\* SearchService.getSuggestions: the newest records of the owner, those
\* matching the text if there is one
getSuggestions(queryText, userId) ==
  LET found == { h \in history :
                   /\ h.userId = userId
                   /\ (queryText # << >> /\ Trim(queryText) # << >>)
                        => regexMatch(h.queryText, queryText) }
      searches == First(NewestFirst(found), SUGGESTIONS_LIMIT)
  IN [ i \in 1..Len(searches) |->
         [id |-> searches[i].id, texto |-> searches[i].queryText, tipo |-> "historial"] ]

\* a controller that asks the catalog whatever the length of the text
asksCatalog_AnyText(textoSafe, historial) == Len(historial) < SUGGESTIONS_LIMIT

asksCatalog(textoSafe, historial) ==
  Len(textoSafe) >= MIN_MATCH_LENGTH /\ Len(historial) < SUGGESTIONS_LIMIT

\* the catalogs the suggestions are padded from: long enough to fill the
\* list, or matching the text in the title and in the description only
SuggestCatalogs ==
  { [ i \in 1..6 |-> [Publicacion(i, 1) EXCEPT !.titulo = <<"a", "b", ToString(i)>>] ],
    << [Publicacion(1, 1) EXCEPT !.titulo = <<"A", "B">>],
       [Publicacion(2, 1) EXCEPT !.titulo = <<"x">>, !.descripcion = <<"a", "b">>],
       [Publicacion(3, 1) EXCEPT !.titulo = <<"y">>] >> }

SuggestCalls ==
  [pc : {"call"}, op : {"suggest"},
   texto : { << >>, <<"a">>, <<"a", "b">>, <<" ", "A", "b", " ">> },
   userId : { <<"user_", "1">>, <<"anonymous_", "session_", "1">> },
   f : [dummy : {FALSE}, answer : {"data", "unreachable"}, data : SuggestCatalogs,
        busqueda : { << >> }, precio_min : {{}}, precio_max : {{}}, categoria : { << >> },
        condicion : { << >> }, ordenar : {""}, page : {{}}, pageSize : {{}}]]

\* the request answers with the suggestions, or 500 when the store or the
\* catalog fails
Suggest(r, ok) ==
  /\ reqs[r].pc = "call"
  /\ reqs[r].op = "suggest"
  /\ LET textoSafe == Trim(reqs[r].texto)
         historial == getSuggestions(textoSafe, reqs[r].userId)
         catalog == searchAndFilterProducts(
                      [reqs[r].f EXCEPT !.busqueda = textoSafe,
                                        !.pageSize = {SUGGESTIONS_LIMIT - Len(historial)}])
         coincidencias == [ i \in 1..Len(catalog.productos) |->
                              [texto |-> catalog.productos[i].titulo,
                               tipo |-> "coincidencia"] ]
         answer(status, sugerencias) ==
           [pc |-> "returned", op |-> "suggest", texto |-> reqs[r].texto,
            userId |-> reqs[r].userId, f |-> reqs[r].f, status |-> status,
            sugerencias |-> sugerencias]
     IN reqs' = [reqs EXCEPT ![r] =
          IF ~ok THEN answer(500, << >>)
          ELSE IF ~asksCatalog(textoSafe, historial)
            THEN answer(200, First(historial, SUGGESTIONS_LIMIT))
          ELSE IF catalog.threw THEN answer(500, << >>)
          ELSE answer(200, First(historial \o coincidencias, SUGGESTIONS_LIMIT))]
  /\ UNCHANGED <<now, activeSessions, nextUuid, history, queries, clicks, nextRecId,
                 nextQueryId, sweeps, timers, cleanupJob, nextTimerId>>

SuggestNext == \E r \in DOMAIN reqs, ok \in BOOLEAN : Suggest(r, ok)

SuggestSpec ==
  InitReading(HistoryStores(MaxSuggestRecords,
                            { [userId |-> <<"user_", "1">>, text |-> <<"A", "b">>, at |-> 0],
                              [userId |-> <<"user_", "1">>, text |-> <<"x">>, at |-> 0],
                              [userId |-> <<"anonymous_", "session_", "1">>,
                               text |-> <<"a", "b">>, at |-> 0] }),
              SuggestCalls)
    /\ [][SuggestNext]_vars

-----------------------------------------------------------------------------
(* cleanupSessionHistory: the two deletes of the cascade and the removal   *)
(* from the registry, shared by closeSession and cleanupExpiredSessions.   *)
(* A delete that throws is caught and logged: the cascade ends there.     *)

\* a cascade that also empties the query store
CascadeHistory_WithQueries(sessionId, ok) ==
  /\ history' = IF ok THEN DeleteManyByUser(history, getAnonymousUserId(sessionId))
                      ELSE history
  /\ queries' = IF ok THEN {} ELSE queries
  /\ UNCHANGED <<clicks, activeSessions>>

CascadeHistory(sessionId, ok) ==
  /\ history' = IF ok THEN DeleteManyByUser(history, getAnonymousUserId(sessionId))
                      ELSE history
  /\ UNCHANGED <<clicks, queries, activeSessions>>

\* a cascade that removes the session outside the try block
CascadeClicks_AlwaysRemove(sessionId, ok) ==
  /\ clicks' = IF ok THEN DeleteManyByUser(clicks, getAnonymousUserId(sessionId))
                     ELSE clicks
  /\ activeSessions' = MapDelete(sessionId)
  /\ UNCHANGED <<history, queries>>

CascadeClicks(sessionId, ok) ==
  /\ clicks' = IF ok THEN DeleteManyByUser(clicks, getAnonymousUserId(sessionId))
                     ELSE clicks
  /\ activeSessions' = IF ok THEN MapDelete(sessionId) ELSE activeSessions
  /\ UNCHANGED <<history, queries>>

-----------------------------------------------------------------------------
(* POST /session/close: closeAnonymousSession.  body is body.sessionId or  *)
(* query.sessionId, used when the middleware set no req.sessionId.         *)

CloseTarget(ctx, body) == IF ctx.sessionId # NoId THEN ctx.sessionId ELSE body

CloseBegun(ctx, body) ==
  IF CloseTarget(ctx, body) = NoId THEN Done(400)
  ELSE [pc |-> "closeHistory", op |-> "close", sessionId |-> CloseTarget(ctx, body)]

StartClose(r, ident, c, body) ==
  /\ FreeSlot(r)
  /\ optionalAuthenticate(ident, c)
  /\ reqs' = [reqs EXCEPT ![r] = CloseBegun(ReqCtx(ident, c), body)]
  /\ UNCHANGED <<now, history, queries, clicks, nextRecId, nextQueryId, sweeps, timers,
                 cleanupJob, nextTimerId>>

CloseHistory(r, ok) ==
  /\ reqs[r].pc = "closeHistory"
  /\ CascadeHistory(reqs[r].sessionId, ok)
  /\ reqs' = [reqs EXCEPT ![r] =
       IF ok THEN [reqs[r] EXCEPT !.pc = "closeClicks"] ELSE Done(200)]
  /\ UNCHANGED <<now, nextUuid, nextRecId, nextQueryId, sweeps, timers, cleanupJob,
                 nextTimerId>>

CloseClicks(r, ok) ==
  /\ reqs[r].pc = "closeClicks"
  /\ CascadeClicks(reqs[r].sessionId, ok)
  /\ reqs' = [reqs EXCEPT ![r] = Done(200)]
  /\ UNCHANGED <<now, nextUuid, nextRecId, nextQueryId, sweeps, timers, cleanupJob,
                 nextTimerId>>

-----------------------------------------------------------------------------
(* The cleanup job: startSessionCleanupJob, stopSessionCleanupJob, the     *)
(* timer callback and the run of cleanupExpiredSessions it starts.         *)

ActiveTimers == DOMAIN timers

\* a start that does not test whether a job is running
startSessionCleanupJob_Unguarded ==
  /\ timers' = [ t \in ActiveTimers \cup {nextTimerId} |->
                   IF t = nextTimerId THEN now + CLEANUP_INTERVAL ELSE timers[t] ]
  /\ cleanupJob' = nextTimerId
  /\ nextTimerId' = nextTimerId + 1

startSessionCleanupJob ==
  IF cleanupJob # 0
    THEN UNCHANGED <<timers, cleanupJob, nextTimerId>>
    ELSE /\ timers' = [ t \in ActiveTimers \cup {nextTimerId} |->
                          IF t = nextTimerId THEN now + CLEANUP_INTERVAL ELSE timers[t] ]
         /\ cleanupJob' = nextTimerId
         /\ nextTimerId' = nextTimerId + 1

stopSessionCleanupJob ==
  IF cleanupJob # 0
    THEN /\ timers' = [ t \in ActiveTimers \ {cleanupJob} |-> timers[t] ]
         /\ cleanupJob' = 0
         /\ UNCHANGED nextTimerId
    ELSE UNCHANGED <<timers, cleanupJob, nextTimerId>>

\* a call of startSessionCleanupJob, the setInterval calls made so far
\* fewer than limit
StartJobWithin(limit) ==
  /\ cleanupJob = 0 => nextTimerId <= limit
  /\ startSessionCleanupJob
  /\ UNCHANGED <<now, activeSessions, nextUuid, history, queries, clicks, nextRecId, nextQueryId,
                 reqs, sweeps>>

StartJob == StartJobWithin(MaxTimers)

StopJob ==
  /\ stopSessionCleanupJob
  /\ UNCHANGED <<now, activeSessions, nextUuid, history, queries, clicks, nextRecId, nextQueryId,
                 reqs, sweeps>>

FreeSweep(w) ==
  /\ sweeps[w].pc = "idle"
  /\ \A v \in 1..(w - 1) : sweeps[v].pc # "idle"

\* a run that ends at the first cascade that fails
SweepAdvance_StopOnError(w, ok) ==
  IF ~ok THEN IdleSweep(sweeps[w].errors \cup {Head(sweeps[w].todo)})
  ELSE IF Tail(sweeps[w].todo) = << >> THEN IdleSweep(sweeps[w].errors)
  ELSE [pc |-> "history", todo |-> Tail(sweeps[w].todo), errors |-> sweeps[w].errors]

\* the run after the cascade of the head of todo has ended, with or
\* without an error
SweepAdvance(w, ok) ==
  LET errors == IF ok THEN sweeps[w].errors
                      ELSE sweeps[w].errors \cup {Head(sweeps[w].todo)}
  IN  IF Tail(sweeps[w].todo) = << >> THEN IdleSweep(errors)
      ELSE [pc |-> "history", todo |-> Tail(sweeps[w].todo), errors |-> errors]

\* the timer fires: the synchronous scan of cleanupExpiredSessions
Fire(t, w) ==
  /\ t \in ActiveTimers
  /\ timers[t] = now
  /\ timers' = [timers EXCEPT ![t] = now + CLEANUP_INTERVAL]
  /\ IF ExpiredAt(now) = << >>
       THEN w = 1 /\ UNCHANGED sweeps
       ELSE /\ FreeSweep(w)
            /\ sweeps' = [sweeps EXCEPT ![w] =
                 [pc |-> "history", todo |-> ExpiredAt(now), errors |-> {}]]
  /\ UNCHANGED <<now, activeSessions, nextUuid, history, queries, clicks, nextRecId, nextQueryId,
                 reqs, cleanupJob, nextTimerId>>

SweepHistory(w, ok) ==
  /\ sweeps[w].pc = "history"
  /\ CascadeHistory(Head(sweeps[w].todo), ok)
  /\ sweeps' = [sweeps EXCEPT ![w] =
       IF ok THEN [sweeps[w] EXCEPT !.pc = "clicks"] ELSE SweepAdvance(w, FALSE)]
  /\ UNCHANGED <<now, nextUuid, nextRecId, nextQueryId, reqs, timers, cleanupJob,
                 nextTimerId>>

SweepClicks(w, ok) ==
  /\ sweeps[w].pc = "clicks"
  /\ CascadeClicks(Head(sweeps[w].todo), ok)
  /\ sweeps' = [sweeps EXCEPT ![w] = SweepAdvance(w, ok)]
  /\ UNCHANGED <<now, nextUuid, nextRecId, nextQueryId, reqs, timers, cleanupJob,
                 nextTimerId>>

-----------------------------------------------------------------------------
(* The clock *)

\* the last instant before t2 at which a timer due at nf fires
LastFireBefore(nf, t2) == nf + ((t2 - 1 - nf) \div CLEANUP_INTERVAL) * CLEANUP_INTERVAL

Advance(t2) ==
  /\ t2 \in Instants
  /\ t2 > now
  /\ \A t \in ActiveTimers :
       /\ timers[t] > now
       /\ timers[t] < t2 => ExpiredAt(LastFireBefore(timers[t], t2)) = << >>
  /\ now' = t2
  /\ timers' = [ t \in ActiveTimers |->
                   IF timers[t] < t2
                     THEN LastFireBefore(timers[t], t2) + CLEANUP_INTERVAL
                     ELSE timers[t] ]
  /\ UNCHANGED <<activeSessions, nextUuid, history, queries, clicks, nextRecId, nextQueryId,
                 reqs, sweeps, cleanupJob, nextTimerId>>

-----------------------------------------------------------------------------

Next ==
  \/ \E r \in 1..MaxReqs, ident \in Idents, c \in Candidates :
       \/ \E raw \in Texts, ok \in BOOLEAN, page \in ResultPages :
            StartSearch(r, ident, c, raw, ok, page)
       \/ \E busqueda \in Texts : StartSave(r, ident, c, busqueda)
       \/ \E p \in ProductIds : StartClick(r, ident, c, p)
       \/ \E body \in Candidates : StartClose(r, ident, c, body)
  \/ \E r \in 1..MaxReqs, ok \in BOOLEAN :
       \/ SearchSaveQuery(r, ok)
       \/ SearchSaveHistory(r, ok)
       \/ SaveHistory(r, ok)
       \/ RegisterClick(r, ok)
       \/ CloseHistory(r, ok)
       \/ CloseClicks(r, ok)
  \/ StartJob
  \/ StopJob
  \/ \E t \in 1..MaxTimers, w \in 1..MaxSweeps : Fire(t, w)
  \/ \E w \in 1..MaxSweeps, ok \in BOOLEAN :
       \/ SweepHistory(w, ok)
       \/ SweepClicks(w, ok)
  \/ \E t2 \in Instants : Advance(t2)

\* the scenario of anonymous clients that search and close their session,
\* the cleanup job not started
SearchCloseNext ==
  \/ \E r \in 1..MaxReqs, c \in Candidates :
       \/ \E raw \in Texts, ok \in BOOLEAN, page \in ResultPages \ {<< >>} :
            StartSearch(r, NoId, c, raw, ok, page)
       \/ StartClose(r, NoId, c, NoId)
  \/ \E r \in 1..MaxReqs, ok \in BOOLEAN :
       \/ SearchSaveQuery(r, ok)
       \/ SearchSaveHistory(r, ok)
       \/ CloseHistory(r, ok)
       \/ CloseClicks(r, ok)

SearchCloseSpec == Init /\ [][SearchCloseNext]_vars

\* anonymous clients whose requests overlap, the clock standing still and
\* the cleanup job not started
ClientsNext ==
  \/ \E r \in 1..MaxClientReqs, c \in Candidates :
       \/ \E raw \in Texts, ok \in BOOLEAN, page \in ResultPages :
            StartSearch(r, NoId, c, raw, ok, page)
       \/ \E busqueda \in Texts : StartSave(r, NoId, c, busqueda)
       \/ \E p \in ProductIds : StartClick(r, NoId, c, p)
       \/ StartClose(r, NoId, c, NoId)
  \/ \E r \in 1..MaxClientReqs, ok \in BOOLEAN :
       \/ SearchSaveQuery(r, ok)
       \/ SearchSaveHistory(r, ok)
       \/ SaveHistory(r, ok)
       \/ RegisterClick(r, ok)
       \/ CloseHistory(r, ok)
       \/ CloseClicks(r, ok)

ClientsSpec == InitWith(MaxClientReqs) /\ [][ClientsNext]_vars

\* the scenario of clients, signed in or not, that only search, their
\* requests overlapping
SearchNext ==
  \/ \E r \in 1..MaxClientReqs, ident \in Idents, c \in Candidates :
       \E raw \in SearchTexts, ok \in BOOLEAN, page \in ResultPages :
         StartSearch(r, ident, c, raw, ok, page)
  \/ \E r \in 1..MaxClientReqs, ok \in BOOLEAN :
       \/ SearchSaveQuery(r, ok)
       \/ SearchSaveHistory(r, ok)

SearchSpec == InitWith(MaxClientReqs) /\ [][SearchNext]_vars

\* the scenario of clients, signed in or not, that save searches to their
\* history, read it and delete records of it by id
HistoryNext ==
  \/ \E r \in 1..MaxReqs, ident \in Idents, c \in Candidates :
       \/ \E busqueda \in Texts : StartSave(r, ident, c, busqueda)
       \/ StartGetHistory(r, ident, c)
       \/ \E id \in HistoryIds : StartDelete(r, ident, c, id)
  \/ \E r \in 1..MaxReqs, ok \in BOOLEAN :
       \/ SaveHistory(r, ok)
       \/ GetHistory(r, ok)
       \/ DeleteHistory(r, ok)

HistorySpec == Init /\ [][HistoryNext]_vars

\* GET /products with the catalog read spelled out: the controller awaits
\* searchAndFilterProducts and goes on with the ids of the page, or answers
\* 500 when it throws
StartCatalogSearch(r, ident, c, f) ==
  LET result == searchAndFilterProducts(f)
  IN StartSearch(r, ident, c, f.busqueda, ~result.threw,
                 IF result.threw THEN << >>
                 ELSE [ i \in 1..Len(result.productos) |-> result.productos[i].id_producto ])

\* the searches of a client while the publications API answers, is
\* unreachable or times out, in dummy mode and not
OutageCalls ==
  [dummy : BOOLEAN, answer : {"data", "unreachable", "timeout"},
   data : { <<Publicacion(1, 1)>>, <<Publicacion(1, 1), Publicacion(2, 2)>> },
   busqueda : { << >>, <<"a">> }, precio_min : {{}}, precio_max : {{}},
   categoria : { << >> }, condicion : { << >> }, ordenar : {""}, page : {{}},
   pageSize : {{}}]

\* the scenario of searches during an outage of the catalog, the store
\* answering
OutageNext ==
  \/ \E r \in 1..MaxClientReqs, ident \in Idents, c \in Candidates, f \in OutageCalls :
       StartCatalogSearch(r, ident, c, f)
  \/ \E r \in 1..MaxClientReqs :
       \/ SearchSaveQuery(r, TRUE)
       \/ SearchSaveHistory(r, TRUE)

OutageSpec == InitWith(MaxClientReqs) /\ [][OutageNext]_vars

Spec == Init /\ [][Next]_vars

\* the scenario of a job started and stopped again and again while an
\* anonymous client clicks and its session expires
MaxJobStarts == 3

JobNext ==
  \/ StartJobWithin(MaxJobStarts)
  \/ StopJob
  \/ \E r \in 1..MaxReqs, c \in Candidates, p \in ProductIds : StartClick(r, NoId, c, p)
  \/ \E r \in 1..MaxReqs, ok \in BOOLEAN : RegisterClick(r, ok)
  \/ \E t \in 1..MaxJobStarts, w \in 1..MaxSweeps : Fire(t, w)
  \/ \E w \in 1..MaxSweeps, ok \in BOOLEAN :
       \/ SweepHistory(w, ok)
       \/ SweepClicks(w, ok)
  \/ \E t2 \in Instants : Advance(t2)

JobSpec == Init /\ [][JobNext]_vars

TypeOK ==
  /\ now \in Instants
  /\ nextUuid \in 1..(MaxSessions + 1)
  /\ nextRecId \in 1..(MaxRecords + 1)
  /\ nextQueryId \in 1..(MaxQueries + 1)
  /\ cleanupJob \in 0..MaxTimers

-----------------------------------------------------------------------------
(* Vocabulary of the properties *)

RangeOf(seq) == { seq[i] : i \in 1..Len(seq) }

Entries == RangeOf(activeSessions)

\* a step of the cascade of sweep run w, successful or not
SweepCascadeStep(w) ==
  /\ sweeps[w].pc \in {"history", "clicks"}
  /\ sweeps'[w] # sweeps[w]

\* a step of the cascade of the close request in slot r
CloseCascadeStep(r) ==
  /\ reqs[r].pc \in {"closeHistory", "closeClicks"}
  /\ reqs'[r] # reqs[r]

\* every record of both stores that sessionId does not own is kept
OthersKept(sessionId) ==
  /\ \A h \in history : h.userId # getAnonymousUserId(sessionId) => h \in history'
  /\ \A k \in clicks : k.userId # getAnonymousUserId(sessionId) => k \in clicks'

\* every record of both stores that sessionId owns is kept
OwnKept(sessionId) ==
  /\ OwnedBy(history, getAnonymousUserId(sessionId)) \subseteq history'
  /\ OwnedBy(clicks, getAnonymousUserId(sessionId)) \subseteq clicks'

\* an unauthenticated request with X-Session-Id c starts in slot r
AnonStart(r, c) ==
  /\ FreeSlot(r)
  /\ UNCHANGED <<now, history, queries, clicks, nextRecId, nextQueryId, sweeps, timers,
                 cleanupJob, nextTimerId>>
  /\ \A q \in 1..MaxReqs : q # r => reqs'[q] = reqs[q]
  /\ optionalAuthenticate(NoId, c)
  /\ LET ctx == ReqCtx(NoId, c)
     IN  \/ \E raw \in Texts, ok \in BOOLEAN, page \in ResultPages :
              reqs'[r] = SearchBegun(ctx, raw, ok, page)
         \/ \E busqueda \in Texts : reqs'[r] = SaveBegun(ctx, busqueda)
         \/ \E p \in ProductIds : reqs'[r] = ClickBegun(ctx, p)
         \/ \E body \in Candidates : reqs'[r] = CloseBegun(ctx, body)

\* the request that has just started in slot r works for session sessionId
BoundTo(r, sessionId) ==
  \/ reqs'[r].pc = "done"
  \/ /\ reqs'[r].op = "close"
     /\ reqs'[r].sessionId = sessionId
  \/ /\ reqs'[r].op # "close"
     /\ reqs'[r].userId = getAnonymousUserId(sessionId)

-----------------------------------------------------------------------------
(* C1: a registered session whose inactivity has reached 12 hours is       *)
(* removed, and its history and click records deleted, within one sweep    *)
(* interval.  Amended: while the cleanup job runs the next run of the      *)
(* sweep is never more than one interval away and never overdue; a run     *)
(* selects every registered session whose inactivity has reached 12 hours; *)
(* the cascade of a selected session deletes its history records, and      *)
(* when its click delete succeeds too no click record of it is left and    *)
(* the session is removed.                                                *)

\* the timer callback of timer t runs in this step
TimerFires(t) ==
  /\ t \in ActiveTimers
  /\ t \in DOMAIN timers'
  /\ timers[t] = now
  /\ timers'[t] # timers[t]
  /\ now' = now

RunSelectsExpired ==
  \A t \in 1..MaxTimers :
    TimerFires(t) =>
      \A e \in Entries :
        now - e.lastActivity >= SESSION_TIMEOUT =>
          \E w \in 1..MaxSweeps :
            /\ sweeps[w].pc = "idle"
            /\ sweeps'[w].pc = "history"
            /\ e.key \in RangeOf(sweeps'[w].todo)

CascadeRemoves ==
  \A w \in 1..MaxSweeps :
    LET s == Head(sweeps[w].todo) IN
    /\ (sweeps[w].pc = "history" /\ sweeps'[w].pc = "clicks") =>
         OwnedBy(history', getAnonymousUserId(s)) = {}
    /\ (sweeps[w].pc = "clicks" /\ sweeps'[w] # sweeps[w] /\ s \notin sweeps'[w].errors) =>
         /\ OwnedBy(clicks', getAnonymousUserId(s)) = {}
         /\ s \notin Keys'

C1_TimerWithinInterval ==
  cleanupJob # 0 =>
    /\ timers[cleanupJob] >= now
    /\ timers[cleanupJob] <= now + CLEANUP_INTERVAL

C1_SweepRemovesExpired ==
  /\ []C1_TimerWithinInterval
  /\ [][RunSelectsExpired /\ CascadeRemoves]_vars

\* the statement as claimed: with the cleanup job running, no run due or in
\* progress, a session that a run has handled is not still registered one
\* interval after its inactivity reached 12 hours
C1_RemovedWithinInterval ==
  \A e \in Entries :
    ~ /\ now - e.lastActivity >= SESSION_TIMEOUT + CLEANUP_INTERVAL
      /\ cleanupJob # 0
      /\ timers[cleanupJob] > now
      /\ \A w \in 1..MaxSweeps : sweeps[w].pc = "idle"
      /\ \E w \in 1..MaxSweeps : e.key \in sweeps[w].errors

\* a run of the job has selected an expired session and deleted its history
C1_Witness ==
  \E w \in 1..MaxSweeps, e \in Entries :
    /\ cleanupJob # 0
    /\ sweeps[w].pc = "clicks"
    /\ Head(sweeps[w].todo) = e.key
    /\ now - e.lastActivity >= SESSION_TIMEOUT
    /\ OwnedBy(history, getAnonymousUserId(e.key)) = {}

-----------------------------------------------------------------------------
(* C2: an unauthenticated request with candidate id c is bound to c, whose  *)
(* lastActivity becomes now, when c is registered and not expired; in      *)
(* every other case an id no registered session has is generated,          *)
(* registered with createdAt = lastActivity = now, and the request is      *)
(* bound to it.                                                            *)

C2_Resolved(r, c) ==
  IF c # NoId /\ \E e \in Entries : e.key = c /\ now - e.lastActivity < SESSION_TIMEOUT
    THEN /\ BoundTo(r, c)
         /\ Len(activeSessions') = Len(activeSessions)
         /\ \A i \in 1..Len(activeSessions) :
              activeSessions'[i] =
                IF activeSessions[i].key = c
                  THEN [activeSessions[i] EXCEPT !.lastActivity = now]
                  ELSE activeSessions[i]
    ELSE \E n \in 1..MaxSessions :
           /\ \A e \in Entries : e.key # SessionIdOf(n)
           /\ activeSessions' = Append(activeSessions,
                [key |-> SessionIdOf(n), sessionId |-> SessionIdOf(n),
                 createdAt |-> now, lastActivity |-> now])
           /\ BoundTo(r, SessionIdOf(n))

C2_SessionResolution ==
  [][\A r \in 1..MaxReqs, c \in Candidates : AnonStart(r, c) => C2_Resolved(r, c)]_vars

\* a request is in flight for a session created just now, next to a
\* registered session that has expired
C2_Witness ==
  \E r \in 1..MaxReqs, e \in Entries, x \in Entries :
    /\ reqs[r].pc \in {"query", "history", "click"}
    /\ reqs[r].userId = getAnonymousUserId(e.key)
    /\ e.createdAt = now
    /\ e.lastActivity = now
    /\ now - x.lastActivity >= SESSION_TIMEOUT

-----------------------------------------------------------------------------
(* C3: isSessionActive(sessionId) is true exactly when the registry holds  *)
(* an entry for sessionId whose inactivity is below 12 hours; a registered *)
(* session is inactive exactly when the scan of the sweep selects it.      *)

C3_ActiveIffFresh ==
  \A c \in Candidates :
    /\ isSessionActive(c) <=>
         \E e \in Entries : e.key = c /\ now - e.lastActivity < SESSION_TIMEOUT
    /\ c \in Keys => (~isSessionActive(c) <=> c \in RangeOf(ExpiredAt(now)))

\* a registered session is exactly 12 hours inactive
C3_Witness ==
  \E e \in Entries :
    /\ now - e.lastActivity = SESSION_TIMEOUT
    /\ ~isSessionActive(e.key)

-----------------------------------------------------------------------------
(* C4: a delete that fails in the cascade of session s of a sweep run      *)
(* changes neither the registry nor the stores and the run goes on with    *)
(* the next session; s, which no request can refresh, is selected again by *)
(* the next run; a session leaves the registry only in the step of a       *)
(* cascade whose history delete has succeeded and whose click delete       *)
(* succeeds.                                                               *)

FailureContained ==
  \A w \in 1..MaxSweeps :
    (SweepCascadeStep(w) /\ Head(sweeps[w].todo) \in sweeps'[w].errors) =>
      /\ activeSessions' = activeSessions
      /\ history' = history
      /\ clicks' = clicks
      /\ IF Tail(sweeps[w].todo) = << >>
           THEN sweeps'[w].pc = "idle"
           ELSE sweeps'[w].pc = "history" /\ sweeps'[w].todo = Tail(sweeps[w].todo)

RemovedOnlyAfterBothDeletes ==
  \A e \in Entries :
    e.key \notin Keys' =>
      /\ OwnedBy(clicks', getAnonymousUserId(e.key)) = {}
      /\ \/ \E w \in 1..MaxSweeps :
              sweeps[w].pc = "clicks" /\ Head(sweeps[w].todo) = e.key
         \/ \E r \in 1..MaxReqs :
              reqs[r].pc = "closeClicks" /\ reqs[r].sessionId = e.key

ExpiredStaysExpired ==
  \A e \in Entries :
    (now - e.lastActivity >= SESSION_TIMEOUT /\ e.key \in Keys') =>
      e \in RangeOf(activeSessions')

C4_FailedCascadeRetried ==
  [][/\ FailureContained
     /\ RemovedOnlyAfterBothDeletes
     /\ ExpiredStaysExpired
     /\ RunSelectsExpired]_vars

\* a run has ended with an error for a session that is still registered
C4_Witness ==
  \E w \in 1..MaxSweeps :
    /\ sweeps[w].pc = "idle"
    /\ \E s \in sweeps[w].errors : s \in Keys

-----------------------------------------------------------------------------
(* C5: once a session has been removed from the registry, no history or    *)
(* click record owned by anonymous_<s> is in the stores.                   *)

C5_NoRecordOfRemovedSession ==
  \A n \in 1..MaxSessions :
    (n < nextUuid /\ SessionIdOf(n) \notin Keys) =>
      /\ OwnedBy(history, getAnonymousUserId(SessionIdOf(n))) = {}
      /\ OwnedBy(clicks, getAnonymousUserId(SessionIdOf(n))) = {}

-----------------------------------------------------------------------------
(* C6: a session whose last refresh is less than 12 hours old when a sweep *)
(* run scans is not selected by that run, and no step of a sweep run       *)
(* removes it from the registry or deletes a record it owns.               *)

C6_RefreshWins ==
  [][\A e \in Entries :
       now - e.lastActivity < SESSION_TIMEOUT =>
         /\ \A w \in 1..MaxSweeps :
              sweeps'[w].pc # "idle" => e.key \notin RangeOf(sweeps'[w].todo)
         /\ sweeps' # sweeps => (e \in RangeOf(activeSessions') /\ OwnKept(e.key))]_vars

\* a sweep run is in progress while a registered session that is older
\* than 12 hours was refreshed less than 12 hours ago
C6_Witness ==
  \E w \in 1..MaxSweeps, e \in Entries :
    /\ sweeps[w].pc # "idle"
    /\ e.lastActivity > e.createdAt
    /\ now - e.createdAt >= SESSION_TIMEOUT
    /\ now - e.lastActivity < SESSION_TIMEOUT

-----------------------------------------------------------------------------
(* C7: the only session id a step adds to the registry is the one the      *)
(* generator yields in that step, and the generator never yields it again: *)
(* an id that was removed, or that a client made up, is never registered.  *)

C7_NoReuse ==
  [][/\ nextUuid' >= nextUuid
     /\ \A n \in 1..MaxSessions :
          (SessionIdOf(n) \notin Keys /\ SessionIdOf(n) \in Keys') =>
            (n = nextUuid /\ nextUuid' = n + 1)]_vars

\* the first session is gone from the registry and a later one is registered
C7_Witness ==
  /\ nextUuid > 2
  /\ SessionIdOf(1) \notin Keys
  /\ SessionIdOf(2) \in Keys

-----------------------------------------------------------------------------
(* C8: a search of an anonymous session with text and at least one result  *)
(* creates one query record and one history record owned by                *)
(* anonymous_<s>, and closing s removes both.  Amended: the search adds    *)
(* exactly one query record holding the text and exactly one history       *)
(* record owned by the requester; the close deletes every history record   *)
(* of s and leaves the query store as it is: every query record ever       *)
(* saved is still there.                                                   *)

SearchCreatesRecords ==
  \A r \in 1..MaxReqs :
    /\ (reqs[r].pc = "query" /\ reqs'[r] # reqs[r] /\ reqs'[r] # Done(500)) =>
         \E q \in queries' \ queries :
           /\ queries' = queries \cup {q}
           /\ q.valor_busqueda = reqs[r].busqueda
           /\ history' = history
    /\ (reqs[r].pc = "history" /\ reqs[r].op = "search" /\ reqs'[r] = Done(200)) =>
         \E h \in history' \ history :
           /\ history' = history \cup {h}
           /\ h.userId = reqs[r].userId
           /\ h.queryText = reqs[r].busqueda
           /\ h.results = reqs[r].results
           /\ queries' = queries

CloseKeepsQueries ==
  \A r \in 1..MaxReqs :
    /\ CloseCascadeStep(r) => queries' = queries
    /\ (reqs[r].pc = "closeHistory" /\ reqs'[r].pc = "closeClicks") =>
         OwnedBy(history', getAnonymousUserId(reqs[r].sessionId)) = {}

C8_EveryQueryKept == Cardinality(queries) = nextQueryId - 1

-----------------------------------------------------------------------------
(* C9: no step of the cascade of a sweep run changes the query store.      *)

C9_QueriesUntouched ==
  [][(\E w \in 1..MaxSweeps : SweepCascadeStep(w)) => queries' = queries]_vars

\* a sweep run has deleted the history of a session while the query store
\* holds a record
C9_Witness ==
  \E w \in 1..MaxSweeps : sweeps[w].pc = "clicks" /\ queries # {}

-----------------------------------------------------------------------------
(* C10: a step of the cascade for session s, in a sweep run or in a close, *)
(* keeps every history and click record whose owner is not anonymous_<s>.  *)

C10_OnlyOwnRecords ==
  [][/\ \A w \in 1..MaxSweeps :
          SweepCascadeStep(w) => OthersKept(Head(sweeps[w].todo))
     /\ \A r \in 1..MaxReqs :
          CloseCascadeStep(r) => OthersKept(reqs[r].sessionId)]_vars

\* a cascade has deleted the history of its session and the stores hold a
\* record of another owner
C10_Witness ==
  \/ \E r \in 1..MaxReqs :
       /\ reqs[r].pc = "closeClicks"
       /\ \/ \E h \in history : h.userId # getAnonymousUserId(reqs[r].sessionId)
          \/ \E k \in clicks : k.userId # getAnonymousUserId(reqs[r].sessionId)
  \/ \E w \in 1..MaxSweeps :
       /\ sweeps[w].pc = "clicks"
       /\ \/ \E h \in history : h.userId # getAnonymousUserId(Head(sweeps[w].todo))
          \/ \E k \in clicks : k.userId # getAnonymousUserId(Head(sweeps[w].todo))

-----------------------------------------------------------------------------
(* C11: a search that completes writes exactly one query record if and only *)
(* if its text is non-empty after trimming, and exactly one history record  *)
(* if and only if the text is non-empty, an owner is resolved and the page  *)
(* has at least one result; a search with empty text writes neither record  *)
(* and is still answered with its results.                                  *)

\* the step that starts a search whose catalog lookup succeeded writes
\* nothing, and answers at once exactly when there is no text
SearchStartWritesNothing ==
  \A r \in 1..MaxClientReqs, ident \in Idents, c \in Candidates, raw \in SearchTexts,
     page \in ResultPages :
    StartSearch(r, ident, c, raw, TRUE, page) =>
      /\ UNCHANGED <<queries, history>>
      /\ (reqs'[r] = Done(200)) <=> ~hasSearchText(raw)
      /\ hasSearchText(raw) =>
           /\ reqs'[r].pc = "query"
           /\ reqs'[r].busqueda = Trim(raw)
           /\ reqs'[r].results = page

\* the step after the text was recorded adds one query record and goes on
\* to the history record exactly when there is an owner and a result
QueryStepWritesOne ==
  \A r \in 1..MaxClientReqs :
    (reqs[r].pc = "query" /\ reqs'[r] # reqs[r] /\ reqs'[r] # Done(500)) =>
      /\ \E q \in queries' \ queries :
           /\ queries' = queries \cup {q}
           /\ q.valor_busqueda = reqs[r].busqueda
      /\ history' = history
      /\ (reqs'[r].pc = "history") <=> (reqs[r].userId # NoId /\ Len(reqs[r].results) > 0)
      /\ (reqs'[r] = Done(200)) <=> ~(reqs[r].userId # NoId /\ Len(reqs[r].results) > 0)

\* the step that completes such a search adds one history record, its own
HistoryStepWritesOne ==
  \A r \in 1..MaxClientReqs :
    (reqs[r].pc = "history" /\ reqs[r].op = "search" /\ reqs'[r] = Done(200)) =>
      /\ \E h \in history' \ history :
           /\ history' = history \cup {h}
           /\ h.userId = reqs[r].userId
           /\ h.queryText = reqs[r].busqueda
           /\ h.results = reqs[r].results
      /\ queries' = queries

C11_SearchWrites ==
  [][SearchStartWritesNothing /\ QueryStepWritesOne /\ HistoryStepWritesOne]_vars

\* a search has completed with both records written
C11_Witness ==
  \E r \in 1..MaxClientReqs :
    /\ reqs[r] = Done(200)
    /\ \E q \in queries, h \in history :
         /\ h.queryText = q.valor_busqueda
         /\ Len(h.results) > 0

-----------------------------------------------------------------------------
(* C12: when the write of the query record or of the history record fails  *)
(* during a search whose catalog lookup succeeded, the search does not      *)
(* fail: no search that is past its catalog lookup is answered with an      *)
(* error.                                                                   *)

C12_StoreFailureTolerated ==
  [][\A r \in 1..MaxClientReqs :
       (reqs[r].pc \in {"query", "history"} /\ reqs[r].op = "search") =>
         reqs'[r] # Done(500)]_vars

-----------------------------------------------------------------------------
(* C13: deleting a history record by id on behalf of someone who does not   *)
(* own it reports not found and removes nothing, the record stays in what   *)
(* its owner reads, and the reply is the one given for a well-formed id     *)
(* that is not stored.                                                      *)

\* request r asks to delete a record that its requester does not own
DeletesForeign(r) ==
  /\ reqs[r].pc = "deleteOne"
  /\ \E h \in history : h.id = reqs[r].id /\ h.userId # reqs[r].userId

\* request r asks to delete a record that is not stored
DeletesUnknown(r) ==
  /\ reqs[r].pc = "deleteOne"
  /\ reqs[r].id # MalformedId
  /\ \A h \in history : h.id # reqs[r].id

C13_ForeignDeleteNotFound ==
  [][\A r \in 1..MaxReqs :
       /\ (DeletesForeign(r) /\ reqs'[r] # reqs[r]) =>
            /\ history' = history
            /\ reqs'[r] \in {Done(404), Done(500)}
            /\ \A h \in history :
                 h.id = reqs[r].id => h \in RangeOf(getSearchHistory(h.userId))'
       /\ ((DeletesForeign(r) \/ DeletesUnknown(r)) /\ DeleteHistory(r, TRUE)) =>
            reqs'[r] = Done(404)]_vars

\* the middleware has bound a delete to a requester who does not own the
\* record named, and the owner reads that record
C13_Witness ==
  \E r \in 1..MaxReqs :
    /\ DeletesForeign(r)
    /\ \E h \in history :
         /\ h.id = reqs[r].id
         /\ h \in RangeOf(getSearchHistory(h.userId))

-----------------------------------------------------------------------------
(* C14: no entry of the export of all clicks carries a userId, whether or   *)
(* not the stored click had one, and two click stores that differ only in   *)
(* the userId of their clicks give the same export.                         *)

\* the store with the owners of its clicks replaced as g says
Reowned(coll, g) == { ClickDoc(c.id, c.id_producto, g[c.id]) : c \in coll }

C14_ExportHidesOwners ==
  [][\A r \in DOMAIN reqs, dummy \in BOOLEAN :
       ExportClicks(r, dummy, TRUE) =>
         /\ \A i \in 1..Len(reqs'[r].body) : "userId" \notin DOMAIN reqs'[r].body[i]
         /\ \A g \in [{ c.id : c \in clicks } -> OwnerChoices] :
              getAllClicks(Reowned(clicks, g), dummy) = reqs'[r].body]_vars

\* an export of a store that holds a click with an owner and one without
C14_Witness ==
  \E r \in DOMAIN reqs :
    /\ reqs[r].pc = "done"
    /\ reqs[r].status = 200
    /\ Len(reqs[r].body) = Cardinality(clicks)
    /\ \E c, d \in clicks : "userId" \in DOMAIN c /\ "userId" \notin DOMAIN d

-----------------------------------------------------------------------------
(* C15: getAnonymousUserId and extractSessionId are inverse of each other   *)
(* over the ids that start with anonymous_: extracting the session id of    *)
(* the owner id made for s gives s, making the owner id of the session id   *)
(* extracted from an anonymous owner id o gives o, and nothing is extracted *)
(* from an id that does not start with anonymous_.                          *)

C15_OwnerIdRoundTrip ==
  \A r \in DOMAIN reqs :
    (reqs[r].pc = "returned" /\ reqs[r].op = "ids") =>
      /\ extractSessionId(reqs[r].userId) = reqs[r].id
      /\ isAnonymousUserId(reqs[r].id) => getAnonymousUserId(reqs[r].sessionId) = reqs[r].id
      /\ ~isAnonymousUserId(reqs[r].id) => reqs[r].sessionId = Null

\* both functions were applied to an anonymous owner id whose session id
\* itself holds anonymous_
C15_Witness ==
  \E r \in DOMAIN reqs :
    /\ reqs[r].pc = "returned"
    /\ reqs[r].op = "ids"
    /\ isAnonymousUserId(reqs[r].id)
    /\ isAnonymousUserId(reqs[r].sessionId)

-----------------------------------------------------------------------------
(* C16: for every total >= 0, page >= 1 and pageSize in 1..100 the metadata *)
(* of searchAndFilterProducts has totalPages = ceil(total / pageSize), the  *)
(* least number of pages of pageSize that hold total items, hasMore = (page *)
(* < totalPages), and total = the size of the filtered set before slicing.  *)

C16_Metadata ==
  \A r \in DOMAIN reqs :
    (reqs[r].pc = "returned" /\ reqs[r].op = "searchAndFilterProducts"
       /\ ~reqs[r].result.threw) =>
      LET m == reqs[r].result.metadata
      IN /\ m.total = Len(productosFiltrados(reqs[r].filters))
         /\ m.totalPages >= 0
         /\ m.totalPages * m.pageSize >= m.total
         /\ (m.totalPages - 1) * m.pageSize < m.total
         /\ m.hasMore <=> (m.page < m.totalPages)

\* a call has returned a page that is not the last and is not full of the
\* whole set, the total no multiple of the page size
C16_Witness ==
  \E r \in DOMAIN reqs :
    /\ reqs[r].pc = "returned"
    /\ reqs[r].op = "searchAndFilterProducts"
    /\ ~reqs[r].result.threw
    /\ reqs[r].result.metadata.hasMore
    /\ reqs[r].result.metadata.total % reqs[r].result.metadata.pageSize # 0
    /\ reqs[r].result.metadata.total < Len(reqs[r].filters.data)

-----------------------------------------------------------------------------
(* C17: for a fixed catalog, options and pageSize the slices of the pages   *)
(* 1..totalPages are pairwise disjoint, their concatenation in page order   *)
(* is the filtered and sorted set, and page k holds min(pageSize, total -   *)
(* (k - 1) * pageSize) items: 25 matches with pageSize 10 give pages of 10, *)
(* 10 and 5 items, hasMore true on page 1 and false on page 3.              *)

\* the call of f for page k
PageOf(f, k) == searchAndFilterProducts([f EXCEPT !.page = {k}])

RECURSIVE PagesUpTo(_, _)
PagesUpTo(f, k) ==
  IF k = 0 THEN << >> ELSE PagesUpTo(f, k - 1) \o PageOf(f, k).productos

Min(a, b) == IF a < b THEN a ELSE b

C17_PagesPartition ==
  \A r \in DOMAIN reqs :
    (reqs[r].pc = "returned" /\ reqs[r].op = "searchAndFilterProducts"
       /\ ~reqs[r].result.threw) =>
      LET f == reqs[r].filters
          m == reqs[r].result.metadata
          all == PagesUpTo(f, m.totalPages)
      IN /\ all = productosOrdenados(f)
         /\ \A i, j \in 1..Len(all) : i # j => all[i].id_producto # all[j].id_producto
         /\ \A k \in 1..m.totalPages :
              Len(PageOf(f, k).productos) = Min(m.pageSize, m.total - (k - 1) * m.pageSize)
         /\ m.page \in 1..m.totalPages =>
              reqs[r].result.productos = PageOf(f, m.page).productos
         /\ (m.total = 25 /\ m.pageSize = 10) =>
              /\ Len(PageOf(f, 1).productos) = 10
              /\ Len(PageOf(f, 2).productos) = 10
              /\ Len(PageOf(f, 3).productos) = 5
              /\ PageOf(f, 1).metadata.hasMore
              /\ ~PageOf(f, 3).metadata.hasMore

\* page 3 of 25 matches sorted by price, 10 to the page, has returned
C17_Witness ==
  \E r \in DOMAIN reqs :
    /\ reqs[r].pc = "returned"
    /\ reqs[r].op = "searchAndFilterProducts"
    /\ ~reqs[r].result.threw
    /\ reqs[r].filters.ordenar = "precio-desc"
    /\ reqs[r].result.metadata.total = 25
    /\ reqs[r].result.metadata.pageSize = 10
    /\ reqs[r].result.metadata.page = 3
    /\ Len(reqs[r].result.productos) = 5

-----------------------------------------------------------------------------
(* C18: the filtered set of searchAndFilterProducts is exactly the products *)
(* that satisfy every option supplied: the text, ignoring case, is part of  *)
(* the title, the description or the brand; price >= the lower limit;       *)
(* price <= the upper limit; category and condition equal ignoring case.    *)
(* A sort by price orders the set ascending or descending before the slice, *)
(* and the same call made again returns the same output.                    *)

Satisfies(p, f) ==
  /\ Trim(f.busqueda) # << >> =>
       \E field \in {p.titulo, p.descripcion, p.marca} :
         includes(toLowerCase(field), toLowerCase(Trim(f.busqueda)))
  /\ \A m \in f.precio_min : p.precio >= m
  /\ \A m \in f.precio_max : p.precio <= m
  /\ f.categoria # << >> => toLowerCase(p.categoria) = toLowerCase(f.categoria)
  /\ f.condicion # << >> => toLowerCase(p.condicion) = toLowerCase(f.condicion)

C18_FilterAndSort ==
  \A r \in DOMAIN reqs :
    (reqs[r].pc = "returned" /\ reqs[r].op = "searchAndFilterProducts"
       /\ ~reqs[r].result.threw /\ reqs[r].filters.page = {}) =>
      LET f == reqs[r].filters
          out == reqs[r].result.productos
      IN /\ RangeOf(out) = { p \in RangeOf(todosProductos(f)) : Satisfies(p, f) }
         /\ Len(out) = Cardinality(RangeOf(out))
         /\ f.ordenar = "" => out = SelectSeq(todosProductos(f), LAMBDA p : Satisfies(p, f))
         /\ f.ordenar = "precio-asc" =>
              \A i, j \in 1..Len(out) : i < j => out[i].precio <= out[j].precio
         /\ f.ordenar = "precio-desc" =>
              \A i, j \in 1..Len(out) : i < j => out[i].precio >= out[j].precio
         /\ searchAndFilterProducts(f) = reqs[r].result

\* a call with a text, both price limits and a sort has returned some
\* products of the catalog and left others out
C18_Witness ==
  \E r \in DOMAIN reqs :
    /\ reqs[r].pc = "returned"
    /\ reqs[r].op = "searchAndFilterProducts"
    /\ Trim(reqs[r].filters.busqueda) # << >>
    /\ reqs[r].filters.precio_min # {}
    /\ reqs[r].filters.precio_max # {}
    /\ reqs[r].filters.ordenar = "precio-desc"
    /\ Len(reqs[r].result.productos) = 2
    /\ Len(reqs[r].filters.data) = 3

-----------------------------------------------------------------------------
(* C19: with dummy mode off and the catalog unreachable or timing out,      *)
(* searchAndFilterProducts throws and returns no page, empty or stale, and  *)
(* the search request is answered with a failure, not with results.         *)

\* the calls made while the catalog is down and dummy mode is off
Outages == { f \in OutageCalls : ~f.dummy /\ f.answer \in {"unreachable", "timeout"} }

C19_OutageFails ==
  [][/\ \A f \in Outages : searchAndFilterProducts(f) = [threw |-> TRUE]
     /\ \A r \in 1..MaxClientReqs :
          (FreeSlot(r) /\ reqs'[r] # reqs[r]) =>
            \A ident \in Idents, c \in Candidates, f \in Outages :
              StartCatalogSearch(r, ident, c, f) =>
                /\ reqs'[r] = Done(500)
                /\ UNCHANGED <<history, queries>>]_vars

\* a search has been answered with a failure, which in this scenario only
\* the catalog causes, and no record was written
C19_Witness ==
  \E r \in 1..MaxClientReqs :
    /\ reqs[r] = Done(500)
    /\ history = {}
    /\ queries = {}

-----------------------------------------------------------------------------
(* C20: for every collection of clicks and limit N the top clicked products *)
(* are at most N entries, the count of each is the number of clicks read    *)
(* with its product id, adjacent or not, the counts never increase along    *)
(* the list, and no product left out has a larger count than one returned:  *)
(* clicks on A, A, A, B, A give [A: 4, B: 1].                               *)

C20_TopClicked ==
  \A r \in DOMAIN reqs :
    (reqs[r].pc = "returned" /\ reqs[r].op = "top" /\ reqs[r].status = 200) =>
      LET out == reqs[r].productos
          docs == clickSource(clicks, reqs[r].dummy)
          read(p) == { i \in 1..Len(docs) : docs[i].id_producto = p }
          returned == { out[i].id_producto : i \in 1..Len(out) }
      IN /\ Len(out) <= limitSafe(reqs[r].limit)
         /\ Len(out) = Cardinality(returned)
         /\ \A i \in 1..Len(out) : out[i].clickCount = Cardinality(read(out[i].id_producto))
         /\ \A i, j \in 1..Len(out) : i < j => out[i].clickCount >= out[j].clickCount
         /\ \A i \in 1..Len(docs), j \in 1..Len(out) :
              docs[i].id_producto \notin returned =>
                Cardinality(read(docs[i].id_producto)) <= out[j].clickCount
         /\ Len(out) < limitSafe(reqs[r].limit) =>
              \A i \in 1..Len(docs) : docs[i].id_producto \in returned
         /\ ( /\ ~reqs[r].dummy
              /\ Cardinality(clicks) = 5
              /\ [ i \in 1..5 |-> NewestFirst(clicks)[6 - i].id_producto ]
                   = <<"pA", "pA", "pA", "pB", "pA">>
              /\ limitSafe(reqs[r].limit) >= 2 ) =>
              /\ Len(out) = 2
              /\ out[1].id_producto = "pA" /\ out[1].clickCount = 4
              /\ out[2].id_producto = "pB" /\ out[2].clickCount = 1

\* the top 2 of a store of 5 clicks on three products, the clicks of the
\* first not adjacent, has been returned
C20_Witness ==
  \E r \in DOMAIN reqs :
    /\ reqs[r].pc = "returned"
    /\ reqs[r].op = "top"
    /\ reqs[r].status = 200
    /\ Cardinality(clicks) = 5
    /\ Cardinality({ c.id_producto : c \in clicks }) = 3
    /\ Len(reqs[r].productos) = 2
    /\ reqs[r].productos[1].clickCount = 3
    /\ \E c, d, e \in clicks :
         /\ c.id < d.id /\ d.id < e.id
         /\ c.id_producto = reqs[r].productos[1].id_producto
         /\ e.id_producto = c.id_producto
         /\ d.id_producto # c.id_producto

-----------------------------------------------------------------------------
(* C21: the top clicked products answered hold only entries whose product   *)
(* id resolves to a product of the catalog: an entry whose product is not   *)
(* in the catalog, or whose catalog lookup failed, is left out rather than  *)
(* returned without its product.                                            *)

C21_OnlyResolved ==
  \A r \in DOMAIN reqs :
    (reqs[r].pc = "returned" /\ reqs[r].op = "top" /\ reqs[r].status = 200) =>
      \A i \in 1..Len(reqs[r].productos) :
        /\ "producto" \in DOMAIN reqs[r].productos[i]
        /\ reqs[r].productos[i].producto # {}

-----------------------------------------------------------------------------
(* C22: for every collection of history records and limit N the top search  *)
(* terms are at most N entries, one per lower-cased text, so that texts     *)
(* differing only in case are one term; the placeholder of a search without *)
(* text and the empty text are no term; each entry carries the number of    *)
(* its records and the latest requestedAt among them; the counts never      *)
(* increase along the list and no term left out has a larger count than    *)
(* one returned.                                                            *)

-----------------------------------------------------------------------------
(* C23: the suggestions answered are at most 5; the entries taken from the  *)
(* history of the owner, those containing the text when one is given and   *)
(* the most recent otherwise, come before every catalog entry; and whenever *)
(* the history yields fewer than 5 entries for a given text the list is     *)
(* padded with the catalog titles matching the text, up to 5.               *)

\* the records of the owner of call r that the text of r selects
OwnMatches(r) ==
  LET t == Trim(reqs[r].texto)
  IN { h \in history :
         /\ h.userId = reqs[r].userId
         /\ t # << >> => includes(toLowerCase(h.queryText), toLowerCase(t)) }

\* the first entries of the list sugerencias of r are the newest n records
\* of OwnMatches(r), newest first, and every later entry is a catalog entry
HistoryFirst(r, n) ==
  LET out == reqs[r].sugerencias
  IN /\ n <= Len(out)
     /\ \A i \in 1..n :
          /\ out[i].tipo = "historial"
          /\ \E h \in OwnMatches(r) :
               /\ h.id = out[i].id
               /\ h.queryText = out[i].texto
               /\ Cardinality({ g \in OwnMatches(r) : g.id > h.id }) = i - 1
     /\ \A i \in (n + 1)..Len(out) : out[i].tipo = "coincidencia"

\* the entries of sugerencias of r after the first n are the titles of the
\* first publications of the catalog among those of indexes idx, in order
PaddedWith(r, n, idx) ==
  LET out == reqs[r].sugerencias
      room == SUGGESTIONS_LIMIT - n
      pad == IF Cardinality(idx) < room THEN Cardinality(idx) ELSE room
  IN /\ Len(out) = n + pad
     /\ \A k \in 1..pad :
          \E i \in idx : /\ Cardinality({ j \in idx : j < i }) = k - 1
                         /\ out[n + k].texto = reqs[r].f.data[i].titulo

C23_WitnessFull ==
  \E r \in DOMAIN reqs :
    /\ reqs[r].pc = "returned"
    /\ reqs[r].status = 200
    /\ reqs[r].op = "suggest"
    /\ Cardinality(OwnMatches(r)) = 6
    /\ Len(reqs[r].sugerencias) = 5

-----------------------------------------------------------------------------
(* C24: a catalog entry that lacks a required field (title, description,   *)
(* brand, price, category, condition, or the whole producto) is dropped     *)
(* when the catalog is normalized: it is in no page of results and is not   *)
(* counted in metadata.total.                                               *)

\* the publication has every field the normalized product needs
Complete(pub) ==
  /\ Undefined \notin {pub.titulo, pub.descripcion}
  /\ \E p \in pub.producto : Undefined \notin {p.marca, p.categoria, p.condicion}

C24_PartialDropped ==
  \A r \in DOMAIN reqs :
    (reqs[r].pc = "returned" /\ reqs[r].op = "searchAndFilterProducts"
       /\ ~reqs[r].result.threw) =>
      LET data == reqs[r].filters.data
          out == reqs[r].result.productos
      IN /\ \A i \in 1..Len(out) :
              \E k \in 1..Len(data) :
                data[k].id_producto = out[i].id_producto /\ Complete(data[k])
         /\ reqs[r].result.metadata.total
              <= Cardinality({ k \in 1..Len(data) : Complete(data[k]) })

(* C24, amended: a publication without producto is in no page of results   *)
(* and is not counted in metadata.total; a publication with a producto is   *)
(* kept whatever other field it lacks, so that a search without filters    *)
(* counts every publication that has a producto.                            *)

C24_NoProductoDropped ==
  \A r \in DOMAIN reqs :
    (reqs[r].pc = "returned" /\ reqs[r].op = "searchAndFilterProducts"
       /\ ~reqs[r].result.threw) =>
      LET f == reqs[r].filters
          out == reqs[r].result.productos
          withProducto == { k \in 1..Len(f.data) : f.data[k].producto # {} }
      IN /\ \A i \in 1..Len(out) :
              \E k \in withProducto : f.data[k].id_producto = out[i].id_producto
         /\ reqs[r].result.metadata.total <= Cardinality(withProducto)
         /\ (f.busqueda = << >> /\ f.categoria = << >> /\ f.condicion = << >>
               /\ f.precio_min = {} /\ f.precio_max = {}) =>
              reqs[r].result.metadata.total = Cardinality(withProducto)

\* a search without filters of a catalog of three publications, one without
\* producto and one without title, has returned two products
C24_Witness ==
  \E r \in DOMAIN reqs :
    /\ reqs[r].pc = "returned"
    /\ reqs[r].op = "searchAndFilterProducts"
    /\ ~reqs[r].result.threw
    /\ Len(reqs[r].filters.data) = 3
    /\ \E k \in 1..3 : reqs[r].filters.data[k].producto = {}
    /\ \E k \in 1..3 : reqs[r].filters.data[k].titulo = Undefined
    /\ reqs[r].result.metadata.total = 2
    /\ \E i \in 1..2 : reqs[r].result.productos[i].titulo = Undefined

-----------------------------------------------------------------------------
(* C25: removing a session is idempotent.  A cascade, of a close or of a    *)
(* sweep run, for a session id that is not in the registry, because it was  *)
(* removed or was never registered, raises no error: the close goes on to   *)
(* its success answer; it leaves the registry, the query store and the      *)
(* records of every other owner as they are; and when the id owns no       *)
(* record, as after a removal, it changes nothing in the registry and the   *)
(* three stores.                                                            *)

\* the state a removal of sessionId leaves: no entry and no record of it
Removed(sessionId) ==
  /\ ~MapHas(sessionId)
  /\ OwnedBy(history, getAnonymousUserId(sessionId)) = {}
  /\ OwnedBy(clicks, getAnonymousUserId(sessionId)) = {}

\* what a step of a cascade for sessionId may do when it is not registered
RepeatedRemoval(sessionId) ==
  /\ ~MapHas(sessionId) =>
       /\ UNCHANGED <<activeSessions, queries>>
       /\ OthersKept(sessionId)
       /\ history' \subseteq history
       /\ clicks' \subseteq clicks
  /\ Removed(sessionId) => UNCHANGED <<activeSessions, history, clicks, queries>>

C25_RemoveIdempotent ==
  [][/\ \A r \in 1..MaxReqs :
          CloseCascadeStep(r) =>
            /\ RepeatedRemoval(reqs[r].sessionId)
            /\ \/ reqs'[r] = Done(200)
               \/ reqs'[r] = [reqs[r] EXCEPT !.pc = "closeClicks"]
     /\ \A w \in 1..MaxSweeps :
          SweepCascadeStep(w) => RepeatedRemoval(Head(sweeps[w].todo))]_vars

\* the last delete of a close for session_1, generated before and since
\* removed, is pending while another session is registered and owns a record
C25_Witness ==
  \E r \in 1..MaxReqs :
    /\ reqs[r].pc = "closeClicks"
    /\ reqs[r].sessionId = SessionIdOf(1)
    /\ nextUuid > 1
    /\ Removed(SessionIdOf(1))
    /\ activeSessions # << >>
    /\ history \cup clicks # {}

-----------------------------------------------------------------------------
(* C26: in every reachable state every entry of the registry has            *)
(* lastActivity >= createdAt and sits under the key that is its sessionId,  *)
(* one entry per key; and a step that keeps an entry, the registration of   *)
(* an id already there included, never changes its createdAt or its         *)
(* sessionId: lastActivity alone moves, to the time of the step.            *)

C26_EntryInvariant ==
  /\ [](/\ \A e \in Entries : e.lastActivity >= e.createdAt /\ e.key = e.sessionId
        /\ Cardinality(Keys) = Len(activeSessions))
  /\ [][\A e \in Entries :
          \A e2 \in RangeOf(activeSessions') :
            e2.key = e.key =>
              /\ e2.createdAt = e.createdAt
              /\ e2.sessionId = e.sessionId
              /\ e2.lastActivity \in {e.lastActivity, now}]_vars

\* a session registered at one time has been registered again later
C26_Witness ==
  \E e \in Entries : e.createdAt < e.lastActivity /\ e.lastActivity <= now

-----------------------------------------------------------------------------
(* C27: after any sequence of requests (search, save of a history entry,   *)
(* click, close) and sweep runs, every history record of the store has a    *)
(* query text that is not empty, a resolved owner and at least one result   *)
(* id.                                                                      *)

C27_CreatedBySearch ==
  \A h \in history :
    /\ h.queryText # << >>
    /\ h.userId \in UserIds \/ isAnonymousUserId(h.userId)
    /\ Len(h.results) >= 1

(* C27, amended: every history record of the store has a query text that   *)
(* is not empty and a resolved owner, the id of a user or the id of an      *)
(* anonymous session; the record a search writes has at least one result   *)
(* id, and the record POST /history writes has none.                        *)

C27_RecordsOwned ==
  /\ [](\A h \in history :
          /\ h.queryText # << >>
          /\ h.userId \in UserIds \/ isAnonymousUserId(h.userId))
  /\ [][\A r \in 1..MaxReqs :
          (reqs[r].pc = "history" /\ reqs'[r] # reqs[r] /\ history' # history) =>
            \A h \in history' \ history :
              /\ reqs[r].op = "search" => Len(h.results) >= 1
              /\ reqs[r].op = "save" => h.results = << >>]_vars

\* the record of a POST /history of an anonymous session is in the store
C27_Witness ==
  \E h \in history :
    /\ h.results = << >>
    /\ h.queryText # << >>
    /\ isAnonymousUserId(h.userId)
    /\ \E r \in 1..MaxReqs : reqs[r] = Done(200)

-----------------------------------------------------------------------------
(* C28: when the close of session s answers with success, s is not in the   *)
(* registry and the stores hold no history record and no click of           *)
(* anonymous_<s>.                                                           *)

C28_CloseRemoves ==
  [][\A r \in 1..MaxReqs, s \in Candidates :
       (CloseCascadeStep(r) /\ reqs[r].sessionId = s /\ reqs'[r] = Done(200)) =>
         Removed(s)']_vars

-----------------------------------------------------------------------------
(* C29: a run of cleanupExpiredSessions takes every session expired when it *)
(* starts; a cascade that fails in the run changes no request and does not  *)
(* end the run, which goes on with the sessions that are left; and the      *)
(* cascade of each of them, when its own deletes succeed, removes it and    *)
(* its clicks in that run.                                                  *)

C29_RunGoesOn ==
  [][\A w \in 1..MaxSweeps :
       /\ (sweeps[w].pc = "idle" /\ sweeps'[w].pc # "idle") =>
            /\ sweeps'[w].pc = "history"
            /\ sweeps'[w].errors = {}
            /\ RangeOf(sweeps'[w].todo)
                 = { e.key : e \in { x \in Entries : now - x.lastActivity >= SESSION_TIMEOUT } }
       /\ SweepCascadeStep(w) =>
            /\ reqs' = reqs
            /\ sweeps[w].errors \subseteq sweeps'[w].errors
            /\ sweeps'[w].errors \subseteq sweeps[w].errors \cup {Head(sweeps[w].todo)}
            /\ IF sweeps[w].pc = "history" /\ sweeps'[w].errors = sweeps[w].errors
                 THEN sweeps'[w] = [sweeps[w] EXCEPT !.pc = "clicks"]
                 ELSE IF Tail(sweeps[w].todo) = << >>
                   THEN sweeps'[w].pc = "idle"
                   ELSE /\ sweeps'[w].pc = "history"
                        /\ sweeps'[w].todo = Tail(sweeps[w].todo)
            /\ (sweeps[w].pc = "clicks" /\ sweeps'[w].errors = sweeps[w].errors) =>
                 \A s \in Candidates :
                   s = Head(sweeps[w].todo) =>
                     /\ s \notin Keys'
                     /\ OwnedBy(clicks', getAnonymousUserId(s)) = {}]_vars

\* after the cascade of one expired session has failed, the run is at the
\* cascade of another, which is still registered
C29_Witness ==
  \E w \in 1..MaxSweeps :
    /\ sweeps[w].pc \in {"history", "clicks"}
    /\ sweeps[w].errors # {}
    /\ Head(sweeps[w].todo) \notin sweeps[w].errors
    /\ Head(sweeps[w].todo) \in Keys
    /\ sweeps[w].errors \subseteq Keys

-----------------------------------------------------------------------------
(* C30: after any sequence of calls of startSessionCleanupJob and           *)
(* stopSessionCleanupJob at most one periodic timer exists, the one held in *)
(* cleanupJob; a step taken while a job is running, a start included,       *)
(* creates no timer; a step taken while no job is running, a stop included, *)
(* leaves the timers as they are unless it is a start, which leaves exactly *)
(* one timer, also after a stop.                                            *)

C30_AtMostOneTimer ==
  /\ [](/\ Cardinality(ActiveTimers) <= 1
        /\ cleanupJob = 0 <=> ActiveTimers = {}
        /\ cleanupJob # 0 => ActiveTimers = {cleanupJob})
  /\ [][/\ cleanupJob # 0 => ActiveTimers' \subseteq ActiveTimers
        /\ (cleanupJob = 0 /\ cleanupJob' = 0) => timers' = timers
        /\ (cleanupJob = 0 /\ cleanupJob' # 0) =>
             /\ ActiveTimers' = {cleanupJob'}
             /\ cleanupJob' \notin 1..(nextTimerId - 1)
             /\ timers'[cleanupJob'] = now + CLEANUP_INTERVAL]_vars

\* the job runs on its second timer after a start, a stop and a start
C30_Witness ==
  /\ cleanupJob = 2
  /\ ActiveTimers = {2}
  /\ nextTimerId = 3

====
